---- MODULE Spec2Model ----
(***************************************************************************)
(* A model of the amount-detection pipeline of backend/services:           *)
(* AmountDetectionPipeline (pipeline_service.py) orchestrating OCRService, *)
(* NormalizationService and ClassificationService.                         *)
(*                                                                         *)
(* Representation.                                                         *)
(*  - A Python str that the code inspects character by character (a token)*)
(*    is a sequence of one-character strings.                              *)
(*  - A float amount is an integer number of hundredths (every amount the  *)
(*    code extracts has at most two fractional digits, see the regexes of  *)
(*    extract_amounts_from_token).                                         *)
(*  - A confidence is an integer number of 1/One units, One standing for   *)
(*    1.0; One is divisible by everything the code divides by within the   *)
(*    bounds, so the arithmetic is exact.                                  *)
(*  - Message texts are TLA+ strings; a formatted message is a pair        *)
(*    <<prefix, detail>>.                                                  *)
(***************************************************************************)
EXTENDS Integers, Sequences, FiniteSets, TLC

(***************************************************************************)
(* Characters                                                              *)
(***************************************************************************)
Digits == {"0", "1", "2", "3", "4", "5", "6", "7", "8", "9"}

Letters == {"a", "b", "c", "d", "e", "f", "g", "h", "i", "j", "k", "l", "m",
            "n", "o", "p", "q", "r", "s", "t", "u", "v", "w", "x", "y", "z",
            "A", "B", "C", "D", "E", "F", "G", "H", "I", "J", "K", "L", "M",
            "N", "O", "P", "Q", "R", "S", "T", "U", "V", "W", "X", "Y", "Z"}

CurrencySymbols == {"₹", "$", "€", "£"}

IsDigit(c) == c \in Digits

\* \w of Python's re: letters, digits and the underscore.
IsWord(c) == c \in Digits \/ c \in Letters \/ c = "_"

\* \s of Python's re, over the characters a token can hold.
IsSpace(c) == c = " "

DigitVal(c) ==
    CASE c = "0" -> 0 [] c = "1" -> 1 [] c = "2" -> 2 [] c = "3" -> 3
      [] c = "4" -> 4 [] c = "5" -> 5 [] c = "6" -> 6 [] c = "7" -> 7
      [] c = "8" -> 8 [] c = "9" -> 9

DigitChar(d) ==
    CASE d = 0 -> "0" [] d = 1 -> "1" [] d = 2 -> "2" [] d = 3 -> "3"
      [] d = 4 -> "4" [] d = 5 -> "5" [] d = 6 -> "6" [] d = 7 -> "7"
      [] d = 8 -> "8" [] d = 9 -> "9"

\* s[i] or "" past either end of s.
At(s, i) == IF i >= 1 /\ i <= Len(s) THEN s[i] ELSE ""

\* The number of consecutive digits of s starting at index i.
RECURSIVE DigitRun(_, _)
DigitRun(s, i) == IF IsDigit(At(s, i)) THEN 1 + DigitRun(s, i + 1) ELSE 0

\* The number of consecutive whitespace characters of s starting at index i.
RECURSIVE SpaceRun(_, _)
SpaceRun(s, i) == IF IsSpace(At(s, i)) THEN 1 + SpaceRun(s, i + 1) ELSE 0

\* s[i .. j] (empty when j < i).
Slice(s, i, j) == IF j < i THEN << >> ELSE SubSeq(s, i, j)

Min(a, b) == IF a < b THEN a ELSE b

Max(a, b) == IF a > b THEN a ELSE b

\* The value of a run of decimal digits.
RECURSIVE DecimalValue(_)
DecimalValue(ds) ==
    IF ds = << >> THEN 0
    ELSE 10 * DecimalValue(SubSeq(ds, 1, Len(ds) - 1)) + DigitVal(ds[Len(ds)])

\* The decimal digits of a natural number, without leading zeros.
RECURSIVE DecimalDigits(_)
DecimalDigits(n) ==
    IF n < 10 THEN << DigitChar(n) >>
    ELSE Append(DecimalDigits(n \div 10), DigitChar(n % 10))

(***************************************************************************)
(* Floats                                                                  *)
(***************************************************************************)
Hundred == 10 * 10

\* Values outside every amount stand for the floats that are no finite number
\* and for the failure of float(): Inf is above every finite amount, and every
\* ordering comparison with NaN is False.
Billion == 1000 * 1000 * 1000

Inf == 2 * Billion

NaN == 2 * Billion + 1

ValueError == 2 * Billion + 2

\* a < b and a > b on floats.
FloatLt(a, b) ==
    IF a = NaN \/ b = NaN THEN FALSE ELSE a < b

FloatGt(a, b) == FloatLt(b, a)

RECURSIVE Pow10(_)
Pow10(n) == IF n <= 0 THEN 1 ELSE 10 * Pow10(n - 1)

\* s without its leading and trailing whitespace: str.strip().
RECURSIVE Strip(_)
Strip(s) ==
    IF s # << >> /\ IsSpace(s[1]) THEN Strip(Tail(s))
    ELSE IF s # << >> /\ IsSpace(s[Len(s)]) THEN Strip(SubSeq(s, 1, Len(s) - 1))
    ELSE s

\* ds without its leading zeros.
RECURSIVE DropZeros(_)
DropZeros(ds) == IF ds # << >> /\ ds[1] = "0" THEN DropZeros(Tail(ds)) ELSE ds

\* The float, in hundredths, of the significant decimal digits sig scaled by
\* 10^(shift-2): Inf once it is past every amount, hundredths truncated.
ScaledDigits(sig, shift) ==
    IF sig = << >> THEN 0
    ELSE IF Len(sig) + shift > 9 THEN Inf
    ELSE IF shift >= 0 THEN DecimalValue(sig) * Pow10(shift)
    ELSE IF 0 - shift >= Len(sig) THEN 0
    ELSE DecimalValue(sig) \div Pow10(0 - shift)

ScaledValue(ds, shift) == ScaledDigits(DropZeros(ds), shift)

\* float() of the numeral with integer digits intDigits and at most two
\* fraction digits fracDigits, in hundredths.
NumeralValue(intDigits, fracDigits) ==
    ScaledValue(intDigits \o fracDigits, 2 - Len(fracDigits))

\* str.lower() over the letters of nan, inf and infinity.
LowerChar(c) ==
    CASE c = "N" -> "n" [] c = "A" -> "a" [] c = "I" -> "i"
      [] c = "F" -> "f" [] c = "T" -> "t" [] c = "Y" -> "y"
      [] OTHER -> c

LowerCase(s) == [i \in 1..Len(s) |-> LowerChar(s[i])]

\* The exponent of a float numeral whose n exponent digits start at index
\* start of body: whether it is well formed, its value and where it ends.
ExponentDigits(body, start, n, negative) ==
    [ok |-> n > 0,
     end |-> start + n - 1,
     exp |-> (IF negative THEN 0 - 1 ELSE 1)
               * (IF n > 3 THEN 1000
                  ELSE DecimalValue(Slice(body, start, start + n - 1)))]

ExponentFrom(body, start, negative) ==
    ExponentDigits(body, start, DigitRun(body, start), negative)

\* The optional exponent part [eE][+-]?\d+ at index k of body.
Exponent(body, k) ==
    IF At(body, k) \notin {"e", "E"} THEN [ok |-> TRUE, end |-> k - 1, exp |-> 0]
    ELSE ExponentFrom(body, k + (IF At(body, k + 1) \in {"+", "-"} THEN 2 ELSE 1),
                      At(body, k + 1) = "-")

\* The float of a numeral with d integer digits, f fraction digits and the
\* exponent e, which has to end the body.
MantissaValue(body, d, f, e) ==
    IF d + f = 0 \/ ~e.ok \/ e.end # Len(body) THEN ValueError
    ELSE ScaledValue(Slice(body, 1, d) \o Slice(body, d + 2, d + 1 + f), 2 + e.exp - f)

MantissaFraction(body, d, hasDot, f) ==
    MantissaValue(body, d, f, Exponent(body, d + (IF hasDot THEN 1 + f ELSE 0) + 1))

Mantissa(body, d, hasDot) ==
    MantissaFraction(body, d, hasDot, IF hasDot THEN DigitRun(body, d + 2) ELSE 0)

ParseNumeral(body, d) == Mantissa(body, d, At(body, d + 1) = ".")

\* float() of an unsigned body, lower being body.lower().
ParseUnsigned(body, lower) ==
    IF lower = <<"n", "a", "n">> THEN NaN
    ELSE IF lower \in {<<"i", "n", "f">>, <<"i", "n", "f", "i", "n", "i", "t", "y">>}
    THEN Inf
    ELSE ParseNumeral(body, DigitRun(body, 1))

WithSign(value, negative) ==
    IF negative /\ value \notin {NaN, ValueError} THEN 0 - value ELSE value

ParseStripped(stripped, signed) ==
    WithSign(ParseUnsigned(IF signed THEN Tail(stripped) ELSE stripped,
                           LowerCase(IF signed THEN Tail(stripped) ELSE stripped)),
             At(stripped, 1) = "-")

\* Python's float(s) for a str over digits, '.', signs, 'e', whitespace and
\* the words nan, inf, infinity: surrounding whitespace is stripped, then an
\* optional sign, then a word or a decimal numeral with at least one digit and
\* an optional exponent; anything else is a ValueError.  (Underscores between
\* digits, which float() also accepts, are outside the strings of the model.)
ParseFloat(s) == ParseStripped(Strip(s), At(Strip(s), 1) \in {"+", "-"})

\* Python's str(x) for a float holding a whole number of hundredths, x >= 0:
\* "100.0", "25.5", "176.25".
FloatStr(x) ==
    LET whole == DecimalDigits(x \div Hundred)
        frac == x % Hundred
    IN  whole \o <<".">> \o
          (IF frac % 10 = 0 THEN << DigitChar(frac \div 10) >>
           ELSE << DigitChar(frac \div 10), DigitChar(frac % 10) >>)

(***************************************************************************)
(* Settings (config/settings.py)                                           *)
(***************************************************************************)
\* The setting with one zero too many.
MAX_AMOUNT_VALUE_tenfold == 10 * 1000000

\* In whole currency units.
MAX_AMOUNT_VALUE == 1000000

\* In hundredths: 0.01.
MIN_AMOUNT_VALUE == 1

(***************************************************************************)
(* TextProcessor.extract_amounts_from_token (utils/text_utils.py)          *)
(***************************************************************************)
\* The length of the match of (Rs\.?|₹|\$|€|£), re.IGNORECASE, at index i of
\* t; 0 when there is none.
MarkerLen(t, i) ==
    IF At(t, i) \in CurrencySymbols THEN 1
    ELSE IF At(t, i) \in {"R", "r"} /\ At(t, i + 1) \in {"S", "s"}
         THEN (IF At(t, i + 2) = "." THEN 3 ELSE 2)
    ELSE 0

\* The greedy match of \d{1,cap}(?:\.\d{1,2})? at index j of t: the number of
\* integer digits (0: no match), of fraction digits, and the whole length.
NumberAt(t, j, cap) ==
    LET d == Min(cap, DigitRun(t, j))
        f == IF d > 0 /\ At(t, j + d) = "." THEN Min(2, DigitRun(t, j + d + 1)) ELSE 0
    IN  [int |-> d, frac |-> f, len |-> IF f > 0 THEN d + 1 + f ELSE d]

\* float() of the text matched by NumberAt.
NumberValue(t, j, n) ==
    NumeralValue(Slice(t, j, j + n.int - 1),
                 Slice(t, j + n.int + 1, j + n.int + n.frac))

\* re.finditer of (Rs\.?|₹|\$|€|£)\s*(\d{1,6}(?:\.\d{1,2})?) from index i:
\* the numbers of the successive non-overlapping matches.
RECURSIVE CurrencyPrefixMatches(_, _)
CurrencyPrefixMatches(t, i) ==
    IF i > Len(t) THEN << >>
    ELSE LET m == MarkerLen(t, i)
             j == i + m + SpaceRun(t, i + m)
             n == NumberAt(t, j, 6)
         IN  IF m > 0 /\ n.int > 0
             THEN << NumberValue(t, j, n) >> \o CurrencyPrefixMatches(t, j + n.len)
             ELSE CurrencyPrefixMatches(t, i + 1)

\* re.finditer of (\d{1,6}(?:\.\d{1,2})?)\s*(Rs\.?|₹|\$|€|£) from index i.  A
\* shorter number than the greedy one is followed by a digit or a '.', never
\* by the marker, so only the greedy match can succeed at an index.
RECURSIVE CurrencySuffixMatches(_, _)
CurrencySuffixMatches(t, i) ==
    IF i > Len(t) THEN << >>
    ELSE LET n == NumberAt(t, i, 6)
             k == i + n.len + SpaceRun(t, i + n.len)
             m == MarkerLen(t, k)
         IN  IF n.int > 0 /\ m > 0
             THEN << NumberValue(t, i, n) >> \o CurrencySuffixMatches(t, k + m)
             ELSE CurrencySuffixMatches(t, i + 1)

\* re.search of (\d{1,3}(?:\.\d{1,2})?)\s*% from index i: the number of the
\* leftmost match, as a list of at most one element.
RECURSIVE PercentMatch(_, _)
PercentMatch(t, i) ==
    IF i > Len(t) THEN << >>
    ELSE LET n == NumberAt(t, i, 3)
             k == i + n.len + SpaceRun(t, i + n.len)
         IN  IF n.int > 0 /\ At(t, k) = "%"
             THEN << NumberValue(t, i, n) >>
             ELSE PercentMatch(t, i + 1)

\* The end (exclusive) of the match at index e of (?:\.\d{1,2})?\b after a
\* digit, or 0 when the word boundary cannot be met: the fraction is taken
\* when a non-word character follows it, else it is given up.
FractionThenBoundary(t, e) ==
    LET fr == IF At(t, e) = "." THEN DigitRun(t, e + 1) ELSE 0
    IN  IF fr \in {1, 2} /\ ~IsWord(At(t, e + 1 + fr)) THEN e + 1 + fr
        ELSE IF ~IsWord(At(t, e)) THEN e
        ELSE 0

\* re.finditer of \b\d{2,6}(?:\.\d{1,2})?\b from index i: the values matched.
RECURSIVE PlainNumberMatches(_, _)
PlainNumberMatches(t, i) ==
    IF i > Len(t) THEN << >>
    ELSE LET run == DigitRun(t, i)
             end == IF ~IsWord(At(t, i - 1)) /\ run >= 2 /\ run <= 6
                    THEN FractionThenBoundary(t, i + run) ELSE 0
         IN  IF end > 0
             THEN << NumeralValue(Slice(t, i, i + run - 1), Slice(t, i + run + 1, end - 1)) >>
                    \o PlainNumberMatches(t, end)
             ELSE PlainNumberMatches(t, i + 1)

\* The number of consecutive groups ,\d{3} starting at index j of t.
RECURSIVE CommaGroups(_, _)
CommaGroups(t, j) ==
    IF At(t, j) = "," /\ DigitRun(t, j + 1) >= 3 THEN 1 + CommaGroups(t, j + 4) ELSE 0

\* re.finditer of \b\d{1,3}(?:,\d{3})+(?:\.\d{1,2})?\b from index i: the
\* values matched, float() of the match with its commas removed.  With all
\* K groups the boundary may fail (a digit or letter follows); one group less
\* ends before a ',', where the boundary holds.
RECURSIVE CommaNumberMatches(_, _)
CommaNumberMatches(t, i) ==
    IF i > Len(t) THEN << >>
    ELSE LET run == DigitRun(t, i)
             K == IF ~IsWord(At(t, i - 1)) /\ run >= 1 /\ run <= 3
                  THEN CommaGroups(t, i + run) ELSE 0
             full == IF K >= 1 THEN FractionThenBoundary(t, i + run + 4 * K) ELSE 0
             groups == IF full > 0 THEN K ELSE K - 1
             intEnd == i + run + 4 * groups
             end == IF full > 0 THEN full ELSE IF K >= 2 THEN intEnd ELSE 0
         IN  IF end > 0
             THEN << NumeralValue(SelectSeq(Slice(t, i, intEnd - 1), IsDigit),
                                  Slice(t, intEnd + 1, end - 1)) >>
                    \o CommaNumberMatches(t, end)
             ELSE CommaNumberMatches(t, i + 1)

\* The list without its repeated elements, first occurrences kept in order.
RECURSIVE Unique(_)
Unique(xs) ==
    IF xs = << >> THEN << >>
    ELSE LET front == Unique(SubSeq(xs, 1, Len(xs) - 1))
             last == xs[Len(xs)]
         IN  IF \E k \in 1..Len(front) : front[k] = last THEN front
             ELSE Append(front, last)

\* 1.0 <= amount <= settings.MAX_AMOUNT_VALUE
InAmountRange(amount) == Hundred <= amount /\ amount <= MAX_AMOUNT_VALUE * Hundred

\* 0.1 <= amount <= 100
InPercentRange(amount) == 10 <= amount /\ amount <= 100 * Hundred

HasCurrencyMarker(t) == \E i \in 1..Len(t) : MarkerLen(t, i) > 0

HasPercentSign(t) == \E i \in 1..Len(t) : t[i] = "%"

extract_amounts_from_token(token) ==
    LET amounts ==
          IF HasCurrencyMarker(token)
          THEN SelectSeq(CurrencyPrefixMatches(token, 1) \o CurrencySuffixMatches(token, 1),
                         InAmountRange)
          ELSE IF HasPercentSign(token)
          THEN SelectSeq(PercentMatch(token, 1), InPercentRange)
          ELSE SelectSeq(PlainNumberMatches(token, 1) \o CommaNumberMatches(token, 1),
                         InAmountRange)
    IN  Unique(amounts)

(***************************************************************************)
(* ValidationUtils.validate_amount_value (utils/validation_utils.py)       *)
(***************************************************************************)
\* is_valid of validate_amount_value for a float.
validate_amount_value(amount) ==
    IF FloatLt(amount, 0) THEN FALSE
    ELSE IF FloatLt(amount, MIN_AMOUNT_VALUE) THEN FALSE
    ELSE IF FloatGt(amount, MAX_AMOUNT_VALUE * Hundred) THEN FALSE
    ELSE TRUE

(***************************************************************************)
(* Confidences                                                             *)
(***************************************************************************)
\* 1.0; a multiple of every divisor the code applies within the bounds.
One == 1260 * 1000

Tenth == One \div 10

\* Python's None where a float is optional.
NoneFloat == 0 - 1

(***************************************************************************)
(* NormalizationService (services/normalization_service.py)                *)
(***************************************************************************)
\* settings.OCR_DIGIT_CORRECTIONS, in its order.
OCR_DIGIT_CORRECTIONS ==
    << <<"l", "1">>, <<"I", "1">>, <<"O", "0">>, <<"o", "0">>, <<"S", "5">>,
       <<"s", "5">>, <<"G", "6">>, <<"T", "7">>, <<"B", "8">>, <<"b", "6">>,
       <<"g", "9">>, <<"Z", "2">>, <<"z", "2">>, <<"¢", "0">>, <<"@", "0">>,
       <<"e", "0">>, <<"c", "0">> >>

\* token.replace(wrong_char, correct_char)
ReplaceChar(token, wrong, correct) ==
    [i \in 1..Len(token) |-> IF token[i] = wrong THEN correct ELSE token[i]]

\* The loop of _apply_digit_corrections over the first k entries of the map:
\* the corrected token and the number of corrections recorded.
RECURSIVE ApplyCorrections(_, _)
ApplyCorrections(token, k) ==
    IF k = 0 THEN [corrected |-> token, corrections |-> 0]
    ELSE LET prev == ApplyCorrections(token, k - 1)
             wrong == OCR_DIGIT_CORRECTIONS[k][1]
             present == \E i \in 1..Len(prev.corrected) : prev.corrected[i] = wrong
         IN  IF present
             THEN [corrected |-> ReplaceChar(prev.corrected, wrong, OCR_DIGIT_CORRECTIONS[k][2]),
                   corrections |-> prev.corrections + 1]
             ELSE prev

apply_digit_corrections(token) == ApplyCorrections(token, Len(OCR_DIGIT_CORRECTIONS))

\* re.findall of \d+\.\d{1,2} from index i, each match parsed by float().
RECURSIVE DecimalMatches(_, _)
DecimalMatches(t, i) ==
    IF i > Len(t) THEN << >>
    ELSE LET d == DigitRun(t, i)
             f == IF d > 0 /\ At(t, i + d) = "." THEN Min(2, DigitRun(t, i + d + 1)) ELSE 0
         IN  IF f > 0
             THEN << NumeralValue(Slice(t, i, i + d - 1), Slice(t, i + d + 1, i + d + f)) >>
                    \o DecimalMatches(t, i + d + 1 + f)
             ELSE DecimalMatches(t, i + 1)

\* re.findall of \d{1,3}(?:,\d{3})* from index i, commas removed, parsed.
RECURSIVE ThousandsMatches(_, _)
ThousandsMatches(t, i) ==
    IF i > Len(t) THEN << >>
    ELSE LET d == Min(3, DigitRun(t, i))
             end == i + d + 4 * CommaGroups(t, i + d)
         IN  IF d > 0
             THEN << NumeralValue(SelectSeq(Slice(t, i, end - 1), IsDigit), << >>) >>
                    \o ThousandsMatches(t, end)
             ELSE ThousandsMatches(t, i + 1)

\* re.findall of \d+ from index i, parsed.
RECURSIVE IntegerMatches(_, _)
IntegerMatches(t, i) ==
    IF i > Len(t) THEN << >>
    ELSE LET d == DigitRun(t, i)
         IN  IF d > 0
             THEN << NumeralValue(Slice(t, i, i + d - 1), << >>) >> \o IntegerMatches(t, i + d)
             ELSE IntegerMatches(t, i + 1)

\* A result of _complex_normalize and _fallback_parsing: (amount, confidence),
\* found FALSE standing for (None, 0.0).
Found(amount, confidence) == [found |-> TRUE, amount |-> amount, confidence |-> confidence]

NotFound == [found |-> FALSE, amount |-> 0, confidence |-> 0]

IsDigitOrDot(c) == IsDigit(c) \/ c = "."

\* Method 1 of _fallback_parsing: float() of the digits and dots of the token.
DigitsOnlyValue(digits_only) ==
    IF digits_only # << >> /\ digits_only # <<".">> THEN ParseFloat(digits_only)
    ELSE ValueError

\* Method 2 of _fallback_parsing: the valid amounts among the matches of the
\* three patterns, in the order the loops visit them.
PatternMatches(token) ==
    SelectSeq(DecimalMatches(token, 1) \o ThousandsMatches(token, 1)
                \o IntegerMatches(token, 1),
              validate_amount_value)

FallbackResult(direct, matches) ==
    IF direct # ValueError /\ validate_amount_value(direct) THEN Found(direct, 5 * Tenth)
    ELSE IF matches # << >> THEN Found(matches[1], 4 * Tenth)
    ELSE NotFound

fallback_parsing(token) ==
    FallbackResult(DigitsOnlyValue(SelectSeq(token, IsDigitOrDot)), PatternMatches(token))

\* The confidence _complex_normalize gives after that many corrections.
CorrectedConfidence(corrections) ==
    IF corrections > 0 THEN Max(Tenth, 7 * Tenth - corrections * Tenth) ELSE 7 * Tenth

ComplexResult(amounts, corrections, token) ==
    IF amounts # << >> THEN Found(amounts[1], CorrectedConfidence(corrections))
    ELSE fallback_parsing(token)

CorrectedResult(fixed, token) ==
    ComplexResult(extract_amounts_from_token(fixed.corrected), fixed.corrections, token)

complex_normalize(token) == CorrectedResult(apply_digit_corrections(token), token)

\* The append of normalize_amounts as a replacement of the list.
NormalizedAlone(prev, amount, score) == [amounts |-> << amount >>, scores |-> << score >>]

Normalized(prev, amount, score) ==
    [amounts |-> Append(prev.amounts, amount), scores |-> Append(prev.scores, score)]

NormalizedComplex(prev, complex) ==
    IF complex.found THEN Normalized(prev, complex.amount, complex.confidence) ELSE prev

\* One turn of the loop of normalize_amounts: amount is float(token).
NormalizeToken(prev, token, amount) ==
    IF amount # ValueError
    THEN (IF validate_amount_value(amount) THEN Normalized(prev, amount, 9 * Tenth) ELSE prev)
    ELSE NormalizedComplex(prev, complex_normalize(token))

\* The loop of normalize_amounts over the tokens: the amounts and the scores.
RECURSIVE NormalizeTokens(_)
NormalizeTokens(raw_tokens) ==
    IF raw_tokens = << >> THEN [amounts |-> << >>, scores |-> << >>]
    ELSE NormalizeToken(NormalizeTokens(SubSeq(raw_tokens, 1, Len(raw_tokens) - 1)),
                        raw_tokens[Len(raw_tokens)],
                        ParseFloat(raw_tokens[Len(raw_tokens)]))

RECURSIVE Sum(_)
Sum(xs) == IF xs = << >> THEN 0 ELSE xs[1] + Sum(Tail(xs))

NormalizationResponse(amounts, confidence) ==
    [normalized_amounts |-> amounts, normalization_confidence |-> confidence]

\* normalize_amounts without the OCR confidence factored in.
NormalizedResponseWithoutOcr(done, ocr_confidence) ==
    IF done.scores # << >>
    THEN NormalizationResponse(done.amounts, Sum(done.scores) \div Len(done.scores))
    ELSE NormalizationResponse(done.amounts, 0)

\* The response with the OCR confidence halved when no token gave an amount.
NormalizedResponseOcrOnly(done, ocr_confidence) ==
    IF done.scores # << >>
    THEN NormalizationResponse(
             done.amounts,
             (Sum(done.scores) \div Len(done.scores) + ocr_confidence) \div 2)
    ELSE NormalizationResponse(done.amounts, ocr_confidence \div 2)

\* The confidence and the response normalize_amounts ends with.
NormalizedResponse(done, ocr_confidence) ==
    IF done.scores # << >>
    THEN NormalizationResponse(
             done.amounts,
             (Sum(done.scores) \div Len(done.scores) + ocr_confidence) \div 2)
    ELSE NormalizationResponse(done.amounts, 0)

\* normalize_amounts(raw_tokens, ocr_confidence); raised tells whether a fault
\* is raised inside its try block.
normalize_amounts(raw_tokens, ocr_confidence, raised) ==
    IF raised THEN NormalizationResponse(<< >>, 0)
    ELSE IF raw_tokens = << >> THEN NormalizationResponse(<< >>, 0)
    ELSE NormalizedResponse(NormalizeTokens(raw_tokens), ocr_confidence)

(***************************************************************************)
(* Inputs                                                                  *)
(*                                                                         *)
(* A text is described by what the pipeline reads of it: whether it is a   *)
(* str, len(text), len(text.strip()), the tokens that                      *)
(* extract_numeric_tokens(clean_text(text)) returns, the result of         *)
(* detect_currency on the cleaned text and the currency detect_currency    *)
(* finds in the text itself.  An image is described by its size, whether   *)
(* it starts with a known signature, the outcome of loading it and of the  *)
(* OCR engine, and the text correct_ocr_digits returns for the OCR text.   *)
(***************************************************************************)
\* The length of the token lists of the sample texts.
MaxTokens == 2

\* validate_text_input: len(text) > 10000
MAX_TEXT_LENGTH == 10000

\* validate_image_data: len(image_data) < 100
MIN_IMAGE_SIZE == 100

\* settings.MAX_IMAGE_SIZE
MAX_IMAGE_SIZE == 10 * 1024 * 1024

\* str(e) of a fault raised inside a stage.
FaultMessage == "boom"

\* Python's None where a str is optional, and where a list of tokens is.
None == "None"

NoneTokens == << << "None" >> >>

\* No reason (None); a reason is the list of the parts of its message.
NoReason == << >>

\* Tokens the tokenizer returns: "Rs.100", "1,000,001", "10%", "5", "12.345".
TokenSamples ==
    { <<"R", "s", ".", "1", "0", "0">>,
      <<"1", ",", "0", "0", "0", ",", "0", "0", "1">>,
      <<"1", "0", "%">>,
      <<"5">>,
      <<"1", "2", ".", "3", "4", "5">> }

RECURSIVE SeqsUpTo(_, _)
SeqsUpTo(S, n) ==
    IF n = 0 THEN { << >> }
    ELSE LET shorter == SeqsUpTo(S, n - 1)
         IN  shorter \cup { Append(q, x) : q \in shorter, x \in S }

\* Results of detect_currency on the cleaned text, with the currency found
\* in the text itself: no pattern matches either text or some pattern matches
\* both, since clean_text removes and splits no match of a currency pattern.
CurrencySamples ==
    { [cleaned |-> [currency |-> "UNKNOWN", confidence |-> 0], original |-> "UNKNOWN"],
      [cleaned |-> [currency |-> "INR", confidence |-> 4 * Tenth], original |-> "INR"],
      [cleaned |-> [currency |-> "USD", confidence |-> One], original |-> "USD"],
      [cleaned |-> [currency |-> "INR", confidence |-> One], original |-> "USD"] }

Text(is_str, len, stripped_len, tokens, detected) ==
    [is_str |-> is_str, len |-> len, stripped_len |-> stripped_len,
     tokens |-> tokens, detected |-> detected]

NoCurrency == [cleaned |-> [currency |-> "UNKNOWN", confidence |-> 0], original |-> "UNKNOWN"]

\* None, and the text of an absent original_text.
NoText == Text(FALSE, 0, 0, << >>, NoCurrency)

\* "", 123, "   " and a text of 10001 characters.
RejectedTexts ==
    { Text(TRUE, 0, 0, << >>, NoCurrency),
      NoText,
      Text(FALSE, 1, 1, << >>, NoCurrency),
      Text(TRUE, 3, 0, << >>, NoCurrency),
      Text(TRUE, MAX_TEXT_LENGTH + 1, MAX_TEXT_LENGTH + 1, << >>, NoCurrency) }

AcceptedTexts ==
    { Text(TRUE, 40, 40, tokens, detected) :
        tokens \in SeqsUpTo(TokenSamples, MaxTokens), detected \in CurrencySamples }
    \cup { Text(TRUE, MAX_TEXT_LENGTH, MAX_TEXT_LENGTH, << <<"1", "0", "%">> >>, NoCurrency) }

TextInputs == RejectedTexts \cup AcceptedTexts

\* Confidences _perform_ocr returns with a text: 0.1 and 0.9.
OcrConfidences == { Tenth, 9 * Tenth }

Image(size, signature, load, ocr, ocr_confidence, text) ==
    [size |-> size, signature |-> signature, load |-> load, ocr |-> ocr,
     ocr_confidence |-> ocr_confidence, text |-> text]

\* b"", an oversized image, a 50-byte image, bytes with no known signature.
RejectedImages ==
    { Image(0, FALSE, "ok", "no_text", 0, NoText),
      Image(MAX_IMAGE_SIZE + 1, TRUE, "ok", "no_text", 0, NoText),
      Image(MIN_IMAGE_SIZE - 1, TRUE, "ok", "no_text", 0, NoText),
      Image(MIN_IMAGE_SIZE, FALSE, "ok", "no_text", 0, NoText) }

\* Images that pass validation: loading raises, the OCR engine raises or finds
\* no text, or it finds a text (never empty; possibly too long).
AcceptedImages ==
    { Image(MIN_IMAGE_SIZE, TRUE, "fault", "no_text", 0, NoText),
      Image(MIN_IMAGE_SIZE, TRUE, "ok", "fault", 0, NoText),
      Image(MIN_IMAGE_SIZE, TRUE, "ok", "no_text", 0, NoText) }
    \cup { Image(MAX_IMAGE_SIZE, TRUE, "ok", "text", c, t) :
             c \in OcrConfidences,
             t \in AcceptedTexts
                     \cup { Text(TRUE, MAX_TEXT_LENGTH + 1, MAX_TEXT_LENGTH + 1, << >>, NoCurrency) } }

ImageInputs == RejectedImages \cup AcceptedImages

(***************************************************************************)
(* ValidationUtils (utils/validation_utils.py)                             *)
(***************************************************************************)
Valid == [is_valid |-> TRUE, error_msg |-> ""]

Invalid(msg) == [is_valid |-> FALSE, error_msg |-> msg]

\* validate_text_input without the test of text.strip().
validate_text_input_unstripped(text) ==
    IF text.len = 0 THEN Invalid("Text input cannot be empty")
    ELSE IF ~text.is_str THEN Invalid("Text input must be a string")
    ELSE IF text.len > MAX_TEXT_LENGTH
         THEN Invalid("Text input too long (maximum 10,000 characters)")
    ELSE Valid

validate_text_input(text) ==
    IF text.len = 0 THEN Invalid("Text input cannot be empty")
    ELSE IF ~text.is_str THEN Invalid("Text input must be a string")
    ELSE IF text.stripped_len = 0 THEN Invalid("Text input cannot be only whitespace")
    ELSE IF text.len > MAX_TEXT_LENGTH
         THEN Invalid("Text input too long (maximum 10,000 characters)")
    ELSE Valid

validate_image_data(image) ==
    IF image.size = 0 THEN Invalid("Image data cannot be empty")
    ELSE IF image.size > MAX_IMAGE_SIZE THEN Invalid("Image too large (maximum 10.0MB)")
    ELSE IF image.size < MIN_IMAGE_SIZE
         THEN Invalid("Image file appears to be too small or corrupted")
    ELSE IF ~image.signature
         THEN Invalid("Invalid image format. Supported formats: JPEG, PNG, BMP, TIFF")
    ELSE Valid

(***************************************************************************)
(* OCRService (services/ocr_service.py)                                    *)
(***************************************************************************)
RawTokensResponse(raw_tokens, currency_hint, confidence, status, reason) ==
    [raw_tokens |-> raw_tokens, currency_hint |-> currency_hint,
     confidence |-> confidence, status |-> status, reason |-> reason,
     original_text |-> NoText]

\* str(amount) of the amounts of one token.
TokenAmountStrings(amounts) == [i \in 1..Len(amounts) |-> FloatStr(amounts[i])]

\* The loop of extract_from_text over the numeric tokens: str(amount) of
\* every amount of every token, in order.
RECURSIVE AmountStrings(_)
AmountStrings(numeric_tokens) ==
    IF numeric_tokens = << >> THEN << >>
    ELSE TokenAmountStrings(extract_amounts_from_token(numeric_tokens[1]))
           \o AmountStrings(Tail(numeric_tokens))

\* The confidence of the tokens without the 0.4 every extraction begins with.
TokenConfidenceWithoutBase(unique_tokens) == Min(One, Len(unique_tokens) * 2 * Tenth)

\* token_confidence = min(1.0, len(unique_tokens) * 0.2 + 0.4)
token_confidence(unique_tokens) == Min(One, Len(unique_tokens) * 2 * Tenth + 4 * Tenth)

\* extract_from_text after validation, when nothing raises: the response and
\* the calls made.
ExtractedTokens(text, checked, unique_tokens) ==
    IF ~checked.is_valid
    THEN [steps |-> <<"validate_text_input">>,
          response |-> RawTokensResponse(<< >>, None, 0, "error", << checked.error_msg >>)]
    ELSE IF text.tokens = << >>
    THEN [steps |-> <<"validate_text_input", "clean_text", "extract_numeric_tokens">>,
          response |-> RawTokensResponse(<< >>, None, 0, "no_amounts_found",
                                         <<"No numeric tokens found in text">>)]
    ELSE IF unique_tokens = << >>
    THEN [steps |-> <<"validate_text_input", "clean_text", "extract_numeric_tokens",
                      "extract_amounts_from_token">>,
          response |-> RawTokensResponse(<< >>, None, 0, "no_amounts_found",
                                         <<"No valid amounts found in numeric tokens">>)]
    ELSE [steps |-> <<"validate_text_input", "clean_text", "extract_numeric_tokens",
                      "extract_amounts_from_token", "detect_currency">>,
          response |-> RawTokensResponse(
                           unique_tokens,
                           IF text.detected.cleaned.currency # "UNKNOWN"
                           THEN text.detected.cleaned.currency ELSE None,
                           (token_confidence(unique_tokens)
                              + text.detected.cleaned.confidence) \div 2,
                           "success", NoReason)]

\* extract_from_text when nothing raises.
ExtractedFromText(text) ==
    ExtractedTokens(text, validate_text_input(text), Unique(AmountStrings(text.tokens)))

\* The calls of a list up to and including the call named last.
RECURSIVE Through(_, _)
Through(steps, last) ==
    IF steps = << >> THEN << >>
    ELSE IF steps[1] = last THEN << last >>
    ELSE << steps[1] >> \o Through(Tail(steps), last)

InSeq(x, xs) == \E i \in 1..Len(xs) : xs[i] = x

Range(xs) == { xs[i] : i \in 1..Len(xs) }

\* The except clause of extract_from_text when the call named fault raises.
TextRun(run, fault) ==
    IF fault = "none" THEN run
    ELSE [steps |-> Through(run.steps, fault),
          response |-> RawTokensResponse(<< >>, None, 0, "error",
                                         <<"Text processing error", FaultMessage>>)]

\* extract_from_text(text); fault names the call inside its try block that
\* raises, "none" when none does.
extract_from_text(text, fault) == TextRun(ExtractedFromText(text), fault)

\* Lines 179-184 of extract_from_image.
CombinedResult(text_result, image) ==
    IF text_result.status = "success"
    THEN [text_result EXCEPT !.confidence = (image.ocr_confidence + @) \div 2,
                             !.original_text = image.text]
    ELSE text_result

\* extract_from_image given the outcome of its validation and of the
\* extract_from_text it awaits.
ImageRun(image, fault, checked, inner) ==
    IF fault = "validate_image_data"
    THEN [steps |-> <<"validate_image_data">>,
          response |-> RawTokensResponse(<< >>, None, 0, "error",
                                         <<"Image processing error", FaultMessage>>)]
    ELSE IF ~checked.is_valid
    THEN [steps |-> <<"validate_image_data">>,
          response |-> RawTokensResponse(<< >>, None, 0, "error", << checked.error_msg >>)]
    ELSE IF image.load # "ok"
    THEN [steps |-> <<"validate_image_data", "_load_and_preprocess_image">>,
          response |-> RawTokensResponse(<< >>, None, 0, "error",
                                         <<"Failed to load or process image">>)]
    ELSE IF image.ocr # "text"
    THEN [steps |-> <<"validate_image_data", "_load_and_preprocess_image", "_perform_ocr">>,
          response |-> RawTokensResponse(<< >>, None, 0, "no_amounts_found",
                                         <<"No text detected in image">>)]
    ELSE IF fault = "correct_ocr_digits"
    THEN [steps |-> <<"validate_image_data", "_load_and_preprocess_image", "_perform_ocr",
                      "correct_ocr_digits">>,
          response |-> RawTokensResponse(<< >>, None, 0, "error",
                                         <<"Image processing error", FaultMessage>>)]
    ELSE [steps |-> <<"validate_image_data", "_load_and_preprocess_image", "_perform_ocr",
                      "correct_ocr_digits">> \o inner.steps,
          response |-> CombinedResult(inner.response, image)]

\* extract_from_image(image_data); fault names the call that raises past its
\* own handler: one of extract_from_image's own calls, or one inside the
\* extract_from_text it awaits.
extract_from_image(image, fault) ==
    ImageRun(image, fault, validate_image_data(image),
             extract_from_text(image.text,
                               IF fault \in {"validate_image_data", "correct_ocr_digits"}
                               THEN "none" ELSE fault))

\* The calls of extract_from_text(text) that can raise.
TextFaultPoints(text) == Range(ExtractedFromText(text).steps)

\* The calls of extract_from_image(image) that can raise past their own
\* handler (loading and OCR catch their own faults).
ImageFaultPoints(image) ==
    {"validate_image_data"}
      \cup (IF validate_image_data(image).is_valid /\ image.load = "ok" /\ image.ocr = "text"
            THEN {"correct_ocr_digits"} \cup TextFaultPoints(image.text)
            ELSE {})

(***************************************************************************)
(* ClassificationService.classify_amounts                                  *)
(* (services/classification_service.py)                                    *)
(***************************************************************************)
\* What _classify_single_amount and _extract_item_name can give an amount,
\* depending on its context in the text: a direct association (0.9), or no
\* keyword score at all ("other", named by its size, 0.2).
ClassOutcomes ==
    { [item_name |-> "total_bill", confidence |-> 9 * Tenth],
      [item_name |-> "basic_service", confidence |-> 2 * Tenth] }

AmountItem(type, value, source) == [type |-> type, value |-> value, source |-> source]

ClassificationResponse(amounts, confidence) == [amounts |-> amounts, confidence |-> confidence]

\* classify_amounts(amounts, original_text, currency_hint, input_source);
\* outcomes[i] is what the text gives amounts[i], raised tells whether a
\* fault is raised inside its try block.
classify_amounts(amounts, input_source, outcomes, raised) ==
    IF raised THEN ClassificationResponse(<< >>, 0)
    ELSE IF amounts = << >> THEN ClassificationResponse(<< >>, 0)
    ELSE ClassificationResponse(
             [i \in 1..Len(amounts) |->
                AmountItem(outcomes[i].item_name, amounts[i], input_source)],
             Sum([i \in 1..Len(amounts) |-> outcomes[i].confidence]) \div Len(amounts))

(***************************************************************************)
(* AmountDetectionPipeline (services/pipeline_service.py)                  *)
(***************************************************************************)
\* settings.PROCESSING_CONFIDENCE_THRESHOLD: 0.3
PROCESSING_CONFIDENCE_THRESHOLD == 3 * Tenth

\* The values the setting is given: the default, and a stricter 0.6.
ThresholdSettings == { PROCESSING_CONFIDENCE_THRESHOLD, 6 * Tenth }

\* settings.MIN_OCR_CONFIDENCE, MIN_AMOUNT_CONFIDENCE and
\* CLASSIFICATION_CONFIDENCE_THRESHOLD: 0.1, 0.3, 0.4
MIN_OCR_CONFIDENCE == Tenth

MIN_AMOUNT_CONFIDENCE == 3 * Tenth

CLASSIFICATION_CONFIDENCE_THRESHOLD == 4 * Tenth

ProcessingResponse(currency, amounts, status, confidence, raw_tokens, normalization_confidence, classification_confidence, reason) ==
    [currency |-> currency, amounts |-> amounts, status |-> status,
     confidence |-> confidence, raw_tokens |-> raw_tokens,
     normalization_confidence |-> normalization_confidence,
     classification_confidence |-> classification_confidence, reason |-> reason]

\* What a call of process_text or process_image ends with: a response
\* returned (raised tells whether an exception reaches the caller instead).
Returned(response) == [raised |-> FALSE, response |-> response]

Pending ==
    [raised |-> FALSE,
     response |-> ProcessingResponse(None, << >>, "pending", NoneFloat, NoneTokens,
                                     NoneFloat, NoneFloat, NoReason)]

\* process_text and process_image without their except clause: the exception
\* reaches the caller.
pipeline_unguarded(source) ==
    [raised |-> TRUE,
     response |-> ProcessingResponse(None, << >>, "raised", NoneFloat, NoneTokens,
                                     NoneFloat, NoneFloat, << FaultMessage >>)]

\* The except clause of process_text and of process_image.
pipeline_except(source) ==
    Returned(ProcessingResponse(
        None, << >>, "error", 0, NoneTokens, NoneFloat, NoneFloat,
        << IF source = "text" THEN "Pipeline processing error" ELSE "Image processing error",
           FaultMessage >>))

\* The return for a failed extraction with every failure reported as an error.
extraction_failed_as_error(ocr_result) ==
    Returned(ProcessingResponse(None, << >>, "error", ocr_result.confidence,
                                ocr_result.raw_tokens, NoneFloat, NoneFloat,
                                ocr_result.reason))

\* The return of process_text and process_image when extraction did not
\* succeed.
extraction_failed(ocr_result) ==
    Returned(ProcessingResponse(None, << >>, ocr_result.status, ocr_result.confidence,
                                ocr_result.raw_tokens, NoneFloat, NoneFloat,
                                ocr_result.reason))

\* The return when the extraction confidence is below the threshold (the
\* reason also shows both numbers).
extraction_low_confidence(ocr_result) ==
    Returned(ProcessingResponse(None, << >>, "low_confidence", ocr_result.confidence,
                                ocr_result.raw_tokens, NoneFloat, NoneFloat,
                                <<"OCR confidence below threshold">>))

\* The return for an empty normalization reported as a success.
nothing_normalized_as_ok(ocr_result, normalization_result) ==
    Returned(ProcessingResponse(None, << >>, "ok", ocr_result.confidence,
                                ocr_result.raw_tokens,
                                normalization_result.normalization_confidence, NoneFloat,
                                NoReason))

\* The return when normalization yields no amount.
nothing_normalized(ocr_result, normalization_result) ==
    Returned(ProcessingResponse(None, << >>, "no_amounts_found", ocr_result.confidence,
                                ocr_result.raw_tokens,
                                normalization_result.normalization_confidence, NoneFloat,
                                <<"No valid amounts found after normalization">>))

\* len of the str _reconstruct_text_from_tokens builds from the tokens at
\* indexes i..Len(tokens): "Total: ", "Paid: ", "Due: " and "Amount: " before
\* the tokens, " | " between the parts.
RECURSIVE ReconstructedLength(_, _)
ReconstructedLength(tokens, i) ==
    IF i > Len(tokens) THEN 0
    ELSE (IF i = 1 THEN 7 ELSE IF i = 2 THEN 6 ELSE IF i = 3 THEN 5 ELSE 8)
           + Len(tokens[i]) + (IF i < Len(tokens) THEN 3 ELSE 0)
           + ReconstructedLength(tokens, i + 1)

\* _reconstruct_text_from_tokens: a text with the tokens and no currency.
reconstruct_text_from_tokens(tokens) ==
    Text(TRUE, ReconstructedLength(tokens, 1), ReconstructedLength(tokens, 1), tokens,
         NoCurrency)

\* The currency with the hint of the extraction taken first.
hinted_currency(ocr_result, original_text) ==
    IF ocr_result.currency_hint # None THEN ocr_result.currency_hint
    ELSE original_text.detected.original

\* Lines 238-239: the currency found in the text, else the hint.
final_currency(ocr_result, original_text) ==
    IF original_text.detected.original # "UNKNOWN" THEN original_text.detected.original
    ELSE ocr_result.currency_hint

\* The overall confidence as the plain mean of the three.
overall_confidence_unweighted(ocr_confidence, normalization_confidence, classification_confidence) ==
    (ocr_confidence + normalization_confidence + classification_confidence) \div 3

\* Lines 242-250: the weights [0.4, 0.4, 0.2].
overall_confidence(ocr_confidence, normalization_confidence, classification_confidence) ==
    (4 * ocr_confidence + 4 * normalization_confidence + 2 * classification_confidence)
      \div 10

\* Lines 252-259: the final validation of the classified amounts.
IsValidItem(amount_item) == validate_amount_value(amount_item.value)

valid_amounts(classification_result) == SelectSeq(classification_result.amounts, IsValidItem)

\* The response of an assembly that takes every confidence for sufficient.
AssembledAsOk(ocr_result, normalization_result, classification_result, original_text, threshold, overall, valid) ==
    IF valid = << >>
    THEN Returned(ProcessingResponse(
             None, << >>, "no_amounts_found", overall, ocr_result.raw_tokens,
             normalization_result.normalization_confidence,
             classification_result.confidence,
             <<"No valid amounts remained after final validation">>))
    ELSE Returned(ProcessingResponse(
             final_currency(ocr_result, original_text), valid, "ok",
             overall, ocr_result.raw_tokens,
             normalization_result.normalization_confidence,
             classification_result.confidence, NoReason))

\* Lines 261-290 of _assemble_final_output, overall being the overall
\* confidence and valid the amounts that passed the final validation.
assembled(ocr_result, normalization_result, classification_result, original_text, threshold, overall, valid) ==
    IF valid = << >>
    THEN Returned(ProcessingResponse(
             None, << >>, "no_amounts_found", overall, ocr_result.raw_tokens,
             normalization_result.normalization_confidence,
             classification_result.confidence,
             <<"No valid amounts remained after final validation">>))
    ELSE Returned(ProcessingResponse(
             final_currency(ocr_result, original_text), valid,
             IF overall >= threshold THEN "ok" ELSE "low_confidence",
             overall, ocr_result.raw_tokens,
             normalization_result.normalization_confidence,
             classification_result.confidence,
             IF overall >= threshold THEN NoReason
             ELSE <<"Overall confidence below threshold">>))

\* _assemble_final_output; raised tells whether a fault is raised inside its
\* try block, threshold is self.processing_threshold.
assemble_final_output(ocr_result, normalization_result, classification_result, original_text, threshold, raised) ==
    IF raised
    THEN Returned(ProcessingResponse(None, << >>, "error", 0, NoneTokens, NoneFloat,
                                     NoneFloat, <<"Final assembly error", FaultMessage>>))
    ELSE assembled(ocr_result, normalization_result, classification_result, original_text,
                   threshold,
                   overall_confidence(ocr_result.confidence,
                                      normalization_result.normalization_confidence,
                                      classification_result.confidence),
                   valid_amounts(classification_result))

\* The gate with <= in place of <.
below_or_at_threshold(confidence, threshold) == confidence <= threshold

\* process_text line 44 and _continue_pipeline_from_ocr line 148.
below_threshold(confidence, threshold) == confidence < threshold

(***************************************************************************)
(* TextProcessor.correct_ocr_digits (utils/text_utils.py)                  *)
(*                                                                         *)
(* A text is a sequence of characters.  A correction of the log is kept as *)
(* what its message is built from: the kind of correction, what was        *)
(* replaced and what replaced it.                                          *)
(***************************************************************************)
UpperLetters ==
    << "A", "B", "C", "D", "E", "F", "G", "H", "I", "J", "K", "L", "M",
       "N", "O", "P", "Q", "R", "S", "T", "U", "V", "W", "X", "Y", "Z" >>

LowerLetters ==
    << "a", "b", "c", "d", "e", "f", "g", "h", "i", "j", "k", "l", "m",
       "n", "o", "p", "q", "r", "s", "t", "u", "v", "w", "x", "y", "z" >>

\* c.lower()
LowerLetter(c) ==
    IF \E k \in 1..26 : UpperLetters[k] = c
    THEN LowerLetters[CHOOSE k \in 1..26 : UpperLetters[k] = c]
    ELSE c

\* word.lower()
Lower(word) == [i \in 1..Len(word) |-> LowerLetter(word[i])]

\* sub in s
Contains(s, sub) ==
    \E i \in 1..(Len(s) - Len(sub) + 1) : SubSeq(s, i, i + Len(sub) - 1) = sub

\* The number of consecutive \w characters of s starting at index i.
RECURSIVE WordRun(_, _)
WordRun(s, i) == IF IsWord(At(s, i)) THEN 1 + WordRun(s, i + 1) ELSE 0

\* [lIoOsSbBgGzZ¢@ec] of the currency patterns.
IsConfusable(c) ==
    c \in {"l", "I", "o", "O", "s", "S", "b", "B", "g", "G", "z", "Z", "¢", "@", "e", "c"}

RECURSIVE ConfusableRun(_, _)
ConfusableRun(s, i) == IF IsConfusable(At(s, i)) THEN 1 + ConfusableRun(s, i + 1) ELSE 0

\* The number of consecutive "@" of s starting at index i.
RECURSIVE AtSignRun(_, _)
AtSignRun(s, i) == IF At(s, i) = "@" THEN 1 + AtSignRun(s, i + 1) ELSE 0

Correction(kind, from, to) == [kind |-> kind, from |-> from, to |-> to]

\* (corrected, corrections)
Corrected(text, corrections) == [text |-> text, corrections |-> corrections]

\* The loop of _correct_amount_string over the first k entries of the map.
RECURSIVE CorrectAmountString(_, _)
CorrectAmountString(amount_str, k) ==
    IF k = 0 THEN amount_str
    ELSE ReplaceChar(CorrectAmountString(amount_str, k - 1),
                     OCR_DIGIT_CORRECTIONS[k][1], OCR_DIGIT_CORRECTIONS[k][2])

correct_amount_string(amount_str) ==
    CorrectAmountString(amount_str, Len(OCR_DIGIT_CORRECTIONS))

\* currency_patterns: the shape of what follows the prefix, and the prefix.
\*   "at_signs"   (\d+)[@]+            "leading"  ([C]\d+)
\*   "inside"     (\d*[C]+\d*)         "trailing" (\d+[C]+)
currency_patterns ==
    << <<"at_signs", <<"R", "s", ".">> >>, <<"leading", <<"R", "s", ".">> >>,
       <<"inside", <<"R", "s", ".">> >>, <<"trailing", <<"R", "s", ".">> >>,
       <<"at_signs", <<"₹">> >>, <<"leading", <<"₹">> >>,
       <<"inside", <<"₹">> >>, <<"trailing", <<"₹">> >> >>

\* The length of the match of a shape at index j of text, 0 when it does not
\* match there.  The classes of a shape are disjoint, so the greedy match is
\* the only one.
ShapeLength(shape, text, j) ==
    CASE shape = "at_signs" ->
           IF DigitRun(text, j) > 0 /\ AtSignRun(text, j + DigitRun(text, j)) > 0
           THEN DigitRun(text, j) + AtSignRun(text, j + DigitRun(text, j))
           ELSE 0
      [] shape = "leading" ->
           IF IsConfusable(At(text, j)) /\ DigitRun(text, j + 1) > 0
           THEN 1 + DigitRun(text, j + 1)
           ELSE 0
      [] shape = "inside" ->
           IF ConfusableRun(text, j + DigitRun(text, j)) > 0
           THEN DigitRun(text, j) + ConfusableRun(text, j + DigitRun(text, j))
                  + DigitRun(text, j + DigitRun(text, j)
                                     + ConfusableRun(text, j + DigitRun(text, j)))
           ELSE 0
      [] shape = "trailing" ->
           IF DigitRun(text, j) > 0 /\ ConfusableRun(text, j + DigitRun(text, j)) > 0
           THEN DigitRun(text, j) + ConfusableRun(text, j + DigitRun(text, j))
           ELSE 0

\* The replacement lambda of a currency pattern for a match of n characters
\* after the prefix.
CurrencyValue(shape, prefix, text, j, n) ==
    IF shape = "at_signs"
    THEN prefix \o Slice(text, j, j + DigitRun(text, j) - 1) \o <<"0", "0">>
    ELSE prefix \o correct_amount_string(Slice(text, j, j + n - 1))

\* A match replaced, the text after it already done (matches are replaced
\* from the last to the first).
CurrencyReplaced(original, new_value, rest) ==
    Corrected(new_value \o rest.text,
              IF original # new_value
              THEN Append(rest.corrections, Correction("Currency amount", original, new_value))
              ELSE rest.corrections)

KeptChar(c, rest) == Corrected(<< c >> \o rest.text, rest.corrections)

\* One pattern of the first pass over text from index i on; n is the length
\* of its match after the prefix at i, 0 when it does not match at i.
RECURSIVE CurrencyPass(_, _, _, _)
CurrencyAt(shape, prefix, text, i, n) ==
    IF n > 0
    THEN CurrencyReplaced(Slice(text, i, i + Len(prefix) + n - 1),
                          CurrencyValue(shape, prefix, text, i + Len(prefix), n),
                          CurrencyPass(shape, prefix, text, i + Len(prefix) + n))
    ELSE KeptChar(text[i], CurrencyPass(shape, prefix, text, i + 1))

CurrencyPass(shape, prefix, text, i) ==
    IF i > Len(text) THEN Corrected(<< >>, << >>)
    ELSE CurrencyAt(shape, prefix, text, i,
                    IF Slice(text, i, Min(Len(text), i + Len(prefix) - 1)) = prefix
                    THEN ShapeLength(shape, text, i + Len(prefix))
                    ELSE 0)

\* corrections.append(...) of one pass after those of the passes before.
Logged(corrections, pass) == Corrected(pass.text, corrections \o pass.corrections)

CurrencyStep(prev, pattern) ==
    Logged(prev.corrections, CurrencyPass(pattern[1], pattern[2], prev.text, 1))

\* _looks_numeric
looks_numeric(word) ==
    IF Lower(word) \in { <<"r", "s">>, <<"i", "n", "r">>, <<"u", "s", "d">>,
                         <<"e", "u", "r">>, <<"g", "b", "p">> }
    THEN FALSE
    ELSE IF Lower(word) \in { <<"t", "o", "t", "a", "l">>,
                              <<"h", "o", "s", "p", "i", "t", "a", "l">>,
                              <<"p", "a", "t", "i", "e", "n", "t">>,
                              <<"d", "i", "s", "c", "o", "u", "n", "t">>,
                              <<"c", "o", "n", "s", "u", "l", "t", "a", "t", "i", "o", "n">> }
    THEN FALSE
    ELSE IF Len(SelectSeq(word, IsDigit)) > Len(SelectSeq(word, LAMBDA c : c \in Letters))
    THEN TRUE
    ELSE \E indicator \in { <<"r", "s">>, <<"i", "n", "r">>, <<"u", "s", "d">>,
                            <<"t", "o", "t", "a", "l">>, <<"a", "m", "o", "u", "n", "t">>,
                            <<"p", "a", "i", "d">>, <<"d", "u", "e">> } :
            Contains(Lower(word), indicator)

\* The length of the match of \b\w*X\w*\b at index i of text, X being
\* wrong_char; 0 when it does not match there.  For a \w character X the
\* match is the whole word holding it.  For another X it is a word, X and the
\* word after it, or X and the word after it when the search starts at an X
\* that follows a word (the word of the match before).
WordMatchLength(wrong_char, text, i) ==
    IF IsWord(wrong_char)
    THEN (IF /\ IsWord(At(text, i)) /\ ~IsWord(At(text, i - 1))
             /\ \E k \in i..(i + WordRun(text, i) - 1) : text[k] = wrong_char
          THEN WordRun(text, i) ELSE 0)
    ELSE IF /\ IsWord(At(text, i)) /\ ~IsWord(At(text, i - 1))
            /\ At(text, i + WordRun(text, i)) = wrong_char
            /\ WordRun(text, i + WordRun(text, i) + 1) > 0
    THEN WordRun(text, i) + 1 + WordRun(text, i + WordRun(text, i) + 1)
    ELSE IF /\ At(text, i) = wrong_char /\ IsWord(At(text, i - 1))
            /\ WordRun(text, i + 1) > 0
    THEN 1 + WordRun(text, i + 1)
    ELSE 0

\* A matched word, corrected when it looks numeric.
DigitReplaced(wrong_char, correct_char, word, rest) ==
    IF looks_numeric(word)
    THEN Corrected(ReplaceChar(word, wrong_char, correct_char) \o rest.text,
                   Append(rest.corrections,
                          Correction(<< wrong_char >>, word, << correct_char >>)))
    ELSE Corrected(word \o rest.text, rest.corrections)

\* One entry of the map in the second pass over text from index i on; n is
\* the length of the match at i.
RECURSIVE DigitPass(_, _, _, _)
DigitAt(wrong_char, correct_char, text, i, n) ==
    IF n > 0
    THEN DigitReplaced(wrong_char, correct_char, Slice(text, i, i + n - 1),
                       DigitPass(wrong_char, correct_char, text, i + n))
    ELSE KeptChar(text[i], DigitPass(wrong_char, correct_char, text, i + 1))

DigitPass(wrong_char, correct_char, text, i) ==
    IF i > Len(text) THEN Corrected(<< >>, << >>)
    ELSE DigitAt(wrong_char, correct_char, text, i, WordMatchLength(wrong_char, text, i))

DigitStep(prev, entry) ==
    Logged(prev.corrections, DigitPass(entry[1], entry[2], prev.text, 1))

\* word_corrections
word_corrections ==
    << << <<"A", "m", "0", "u", "n", "t">>, <<"A", "m", "o", "u", "n", "t">> >>,
       << <<"a", "m", "0", "u", "n", "t">>, <<"a", "m", "o", "u", "n", "t">> >>,
       << <<"T", "0", "t", "a", "l">>, <<"T", "o", "t", "a", "l">> >>,
       << <<"t", "0", "t", "a", "l">>, <<"t", "o", "t", "a", "l">> >>,
       << <<"B", "a", "1", "a", "n", "c", "e">>, <<"B", "a", "l", "a", "n", "c", "e">> >>,
       << <<"b", "a", "1", "a", "n", "c", "e">>, <<"b", "a", "l", "a", "n", "c", "e">> >>,
       << <<"F", "i", "n", "a", "1">>, <<"F", "i", "n", "a", "l">> >>,
       << <<"f", "i", "n", "a", "1">>, <<"f", "i", "n", "a", "l">> >>,
       << <<"P", "a", "1", "d">>, <<"P", "a", "i", "d">> >>,
       << <<"p", "a", "1", "d">>, <<"p", "a", "i", "d">> >>,
       << <<"D", "1", "s", "c", "o", "u", "n", "t">>, <<"D", "i", "s", "c", "o", "u", "n", "t">> >>,
       << <<"d", "1", "s", "c", "o", "u", "n", "t">>, <<"d", "i", "s", "c", "o", "u", "n", "t">> >> >>

\* re.sub(r'\bword\b', replacement, text) from index i on.
RECURSIVE WordSub(_, _, _, _)
WordSub(word, replacement, text, i) ==
    IF i > Len(text) THEN << >>
    ELSE IF /\ IsWord(At(text, i)) /\ ~IsWord(At(text, i - 1))
            /\ Slice(text, i, i + WordRun(text, i) - 1) = word
    THEN replacement \o WordSub(word, replacement, text, i + Len(word))
    ELSE << text[i] >> \o WordSub(word, replacement, text, i + 1)

WordReplaced(prev, entry, replaced) ==
    IF replaced # prev.text
    THEN Corrected(replaced,
                   Append(prev.corrections, Correction("Word correction", entry[1], entry[2])))
    ELSE prev

WordStep(prev, entry) == WordReplaced(prev, entry, WordSub(entry[1], entry[2], prev.text, 1))

(***************************************************************************)
(* Regular expressions (re), as the services and TextProcessor use them    *)
(***************************************************************************)
\* A pattern is a tuple whose first element names its form. Chars(S) is one
\* character of the set S, Cat a concatenation, Alt an alternation, Rep and
\* LazyRep a greedy and a lazy repetition from least to most times, Wb the
\* word boundary \b, NotAfter(S) the lookbehind (?<![S]).
Chars(S) == <<"chars", S>>

Cat(first, second) == <<"cat", first, second>>

Alt(first, second) == <<"alt", first, second>>

Rep(body, least, most) == <<"rep", body, least, most>>

LazyRep(body, least, most) == <<"lazy", body, least, most>>

Wb == <<"wb">>

NotAfter(S) == <<"not_after", S>>

\* (?!body)
NotBefore(body) == <<"not_before", body>>

Empty == <<"empty">>

\* An unescaped dot: any character of a line.
AnyChar == <<"any">>

\* No repetition of a pattern runs longer than a line of a text.
Unbounded == 64

Opt(body) == Rep(body, 0, 1)

Star(body) == Rep(body, 0, Unbounded)

Plus(body) == Rep(body, 1, Unbounded)

LazyPlus(body) == LazyRep(body, 1, Unbounded)

\* The patterns of a sequence, one after the other.
RECURSIVE Pattern(_)
Pattern(parts) ==
    IF parts = << >> THEN Empty
    ELSE IF Len(parts) = 1 THEN parts[1]
    ELSE Cat(parts[1], Pattern(Tail(parts)))

\* The characters of a string, literally.
Literal(str) == Pattern([i \in 1..Len(str) |-> Chars({ str[i] })])

WordChars == Digits \cup Letters \cup {"_"}

\* \s within a line of a text.
SpaceChars == {" "}

AsciiLetters == Range(UpperLetters) \cup Range(LowerLetters)

\* c.upper()
UpperLetter(c) ==
    IF \E k \in 1..26 : LowerLetters[k] = c
    THEN UpperLetters[CHOOSE k \in 1..26 : LowerLetters[k] = c]
    ELSE c

\* The character is one of S; with re.IGNORECASE, it or its other case is.
CharMatches(c, S, ignore_case) ==
    \/ c \in S
    \/ ignore_case /\ (LowerLetter(c) \in S \/ UpperLetter(c) \in S)

\* \b at position i of s: exactly one of the characters before and at i is
\* a word character.
AtWordBoundary(s, i) == IsWord(At(s, i - 1)) # IsWord(At(s, i))

\* The positions after the matches of a pattern that begin at position i of
\* s, in the order in which the matcher tries them.
RECURSIVE Ends(_, _, _, _)
RECURSIVE EndsFrom(_, _, _, _)
RECURSIVE RepEnds(_, _, _, _, _, _, _)
Ends(pattern, s, i, ignore_case) ==
    CASE pattern[1] = "chars" ->
            IF i <= Len(s) /\ CharMatches(s[i], pattern[2], ignore_case)
            THEN << i + 1 >> ELSE << >>
      [] pattern[1] = "cat" ->
            EndsFrom(pattern[3], s, Ends(pattern[2], s, i, ignore_case), ignore_case)
      [] pattern[1] = "alt" ->
            Ends(pattern[2], s, i, ignore_case) \o Ends(pattern[3], s, i, ignore_case)
      [] pattern[1] = "rep" ->
            RepEnds(pattern[2], pattern[3], pattern[4], s, i, ignore_case, TRUE)
      [] pattern[1] = "lazy" ->
            RepEnds(pattern[2], pattern[3], pattern[4], s, i, ignore_case, FALSE)
      [] pattern[1] = "wb" -> IF AtWordBoundary(s, i) THEN << i >> ELSE << >>
      [] pattern[1] = "not_after" -> IF At(s, i - 1) \in pattern[2] THEN << >> ELSE << i >>
      [] pattern[1] = "not_before" ->
            IF Ends(pattern[2], s, i, ignore_case) # << >> THEN << >> ELSE << i >>
      [] pattern[1] = "empty" -> << i >>
      [] pattern[1] = "any" -> IF i <= Len(s) THEN << i + 1 >> ELSE << >>

\* The ends of the matches of a pattern that begin at one of the positions.
EndsFrom(pattern, s, starts, ignore_case) ==
    IF starts = << >> THEN << >>
    ELSE Ends(pattern, s, starts[1], ignore_case)
           \o EndsFrom(pattern, s, Tail(starts), ignore_case)

\* The ends of least to most repetitions of body from position i: the longer
\* ones first when greedy, the shorter ones first otherwise.
RepEnds(body, least, most, s, i, ignore_case, greedy) ==
    IF most = 0 THEN << i >>
    ELSE IF greedy
    THEN EndsFrom(Rep(body, Max(least - 1, 0), most - 1), s,
                  SelectSeq(Ends(body, s, i, ignore_case), LAMBDA e : e > i), ignore_case)
           \o (IF least = 0 THEN << i >> ELSE << >>)
    ELSE (IF least = 0 THEN << i >> ELSE << >>)
           \o EndsFrom(LazyRep(body, Max(least - 1, 0), most - 1), s,
                       SelectSeq(Ends(body, s, i, ignore_case), LAMBDA e : e > i), ignore_case)

\* A match object: s[start .. end - 1], and the end of its first group.
Match(start, end, group_end) == [start |-> start, end |-> end, group_end |-> group_end]

NoMatch == Match(0, 0, 0)

\* The first end of a group after which the rest of the pattern matches.
RECURSIVE GroupEnd(_, _, _, _)
GroupEnd(rest, s, group_ends, ignore_case) ==
    IF group_ends = << >> THEN 0
    ELSE IF Ends(rest, s, group_ends[1], ignore_case) # << >> THEN group_ends[1]
    ELSE GroupEnd(rest, s, Tail(group_ends), ignore_case)

MatchedGroup(rest, s, i, ignore_case, group_end) ==
    IF group_end = 0 THEN NoMatch
    ELSE Match(i, Ends(rest, s, group_end, ignore_case)[1], group_end)

\* pattern.match at position i, the pattern being group followed by rest.
MatchAt(group, rest, s, i, ignore_case) ==
    MatchedGroup(rest, s, i, ignore_case,
                 GroupEnd(rest, s, Ends(group, s, i, ignore_case), ignore_case))

\* re.search(pattern, s) from position i on; NoMatch is None.
RECURSIVE Search(_, _, _, _, _)
SearchOn(group, rest, s, i, ignore_case, found) ==
    IF found # NoMatch THEN found ELSE Search(group, rest, s, i + 1, ignore_case)

Search(group, rest, s, i, ignore_case) ==
    IF i > Len(s) + 1 THEN NoMatch
    ELSE SearchOn(group, rest, s, i, ignore_case, MatchAt(group, rest, s, i, ignore_case))

RECURSIVE FindFrom(_, _, _, _)
FindAfter(pattern, s, found, ignore_case) ==
    IF found = NoMatch THEN << >>
    ELSE << found >> \o FindFrom(pattern, s, IF found.end = found.start
                                             THEN found.end + 1 ELSE found.end, ignore_case)

FindFrom(pattern, s, i, ignore_case) ==
    FindAfter(pattern, s, Search(pattern, Empty, s, i, ignore_case), ignore_case)

\* list(re.finditer(pattern, s))
finditer(pattern, s, ignore_case) == FindFrom(pattern, s, 1, ignore_case)

(***************************************************************************)
(* A bill of several lines as a text                                       *)
(***************************************************************************)
\* The lines of the bill of the testable properties, text.split("\n").
BillLines ==
    << <<"C", "o", "n", "s", "u", "l", "t", "a", "t", "i", "o", "n", " ", "R", "s", ".", "1", "0", "0">>,
       <<"X", "-", "R", "a", "y", " ", "R", "s", ".", "8", "0", "0">>,
       <<"M", "e", "d", "i", "c", "i", "n", "e", " ", "R", "s", ".", "4", "0", "0">>,
       <<"T", "o", "t", "a", "l", " ", "B", "i", "l", "l", " ", "R", "s", ".", "1", "6", "0", "0">>,
       <<"P", "a", "i", "d", " ", "R", "s", ".", "1", "5", "0", "0">>,
       <<"D", "u", "e", " ", "R", "s", ".", "2", "0", "0">>,
       <<"D", "i", "s", "c", "o", "u", "n", "t", ":", " ", "1", "0", "%">> >>

\* The line of the due amount as bills write it with a colon: "Due: Rs.200".
DueWithColon == <<"D", "u", "e", ":", " ", "R", "s", ".", "2", "0", "0">>

\* The bill with some of its lines left out: the lines whose numbers are in
\* kept, in their order.
RECURSIVE LinesKept(_, _, _)
LinesKept(lines, kept, k) ==
    IF k > Len(lines) THEN << >>
    ELSE (IF k \in kept THEN << lines[k] >> ELSE << >>) \o LinesKept(lines, kept, k + 1)

\* The texts: a sequence of lines each, the characters of a line in a
\* sequence, "\n" between two lines. Every bill made of lines of the bill, and
\* the same bills with the colon in the line of the due amount.
BillTexts ==
    { LinesKept(BillLines, kept, 1) : kept \in (SUBSET (1..Len(BillLines))) \ { {} } }
    \cup { LinesKept([BillLines EXCEPT ![6] = DueWithColon], kept, 1) :
             kept \in { with_due \in SUBSET (1..Len(BillLines)) : 6 \in with_due } }

\* len("\n".join(lines)), and the same for lines joined by one blank.
RECURSIVE JoinedLength(_)
JoinedLength(lines) ==
    IF lines = << >> THEN 0
    ELSE IF Len(lines) = 1 THEN Len(lines[1])
    ELSE Len(lines[1]) + 1 + JoinedLength(Tail(lines))

\* The position in the joined text of the first character of line k, counted
\* from 0.
LineOffset(lines, k) == IF k = 1 THEN 0 ELSE JoinedLength(SubSeq(lines, 1, k - 1)) + 1

(***************************************************************************)
(* TextProcessor.clean_text and extract_numeric_tokens                     *)
(***************************************************************************)
\* re.sub(r'\s+', ' ', ...) within a line.
RECURSIVE Collapsed(_)
Collapsed(s) ==
    IF s = << >> THEN << >>
    ELSE IF IsSpace(s[1]) /\ IsSpace(At(s, 2)) THEN Collapsed(Tail(s))
    ELSE << s[1] >> \o Collapsed(Tail(s))

\* [\w\s\.\,\-\+\$₹€£\(\)\|\:%]
CleanChars ==
    WordChars \cup SpaceChars \cup {".", ",", "-", "+", "$", "₹", "€", "£", "(", ")", "|", ":", "%"}

\* re.sub(r'[^\w\s\.\,\-\+\$₹€£\(\)\|\:%]', ' ', cleaned)
WithoutSpecial(s) == [i \in 1..Len(s) |-> IF s[i] \in CleanChars THEN s[i] ELSE " "]

\* cleaned.replace('|', ' | ') and cleaned.replace(':', ': ')
RECURSIVE Separated(_)
Separated(s) ==
    IF s = << >> THEN << >>
    ELSE (IF s[1] = "|" THEN <<" ", "|", " ">>
          ELSE IF s[1] = ":" THEN <<":", " ">>
          ELSE << s[1] >>) \o Separated(Tail(s))

\* clean_text of one line that is not blank.
CleanLine(line) == Separated(WithoutSpecial(Collapsed(Strip(line))))

\* clean_text(text): the newline between two lines is a run of whitespace and
\* becomes one blank, so the lines of the result are joined by blanks.
clean_text(lines) == [k \in 1..Len(lines) |-> CleanLine(lines[k])]

Number == Plus(Chars(Digits))

Fraction == Cat(Chars({"."}), Plus(Chars(Digits)))

Blanks == Star(Chars(SpaceChars))

\* r'Rs\.?\s*\d+(?:\.\d+)?', r'\d+(?:\.\d+)?\s*Rs', r'₹\s*\d+(?:\.\d+)?' and
\* r'\$\s*\d+(?:\.\d+)?', searched with re.IGNORECASE.
token_currency_patterns ==
    << Pattern(<< Literal(<<"R", "s">>), Opt(Chars({"."})), Blanks, Number, Opt(Fraction) >>),
       Pattern(<< Number, Opt(Fraction), Blanks, Literal(<<"R", "s">>) >>),
       Pattern(<< Chars({"₹"}), Blanks, Number, Opt(Fraction) >>),
       Pattern(<< Chars({"$"}), Blanks, Number, Opt(Fraction) >>) >>

ShortFraction == Cat(Chars({"."}), Rep(Chars(Digits), 1, 3))

\* r'\b\d{1,3}(?:,\d{3})*(?:\.\d{1,3})?\b', r'\b\d+(?:\.\d{1,3})?\b' and
\* r'(?<!\d)\.\d{1,3}\b'
number_patterns ==
    << Pattern(<< Wb, Rep(Chars(Digits), 1, 3), Star(Cat(Chars({","}), Rep(Chars(Digits), 3, 3))),
                  Opt(ShortFraction), Wb >>),
       Pattern(<< Wb, Number, Opt(ShortFraction), Wb >>),
       Pattern(<< NotAfter(Digits), ShortFraction, Wb >>) >>

\* r'\d+(?:\.\d+)?%'
percentage_pattern == Pattern(<< Number, Opt(Fraction), Chars({"%"}) >>)

\* (token, position) of extract_numeric_tokens; the context is not used.
NumericToken(token, position) == [token |-> token, position |-> position]

\* The matches of a pattern in a line as tokens, the line beginning at offset.
TokensOfMatches(line, offset, matches) ==
    [m \in 1..Len(matches) |->
        NumericToken(Strip(Slice(line, matches[m].start, matches[m].end - 1)),
                     offset + matches[m].start - 1)]

\* re.finditer(pattern, text): no pattern of the tokenizer matches blanks at
\* its ends, and the lines of a bill begin with a letter, so every match lies
\* within a line.
RECURSIVE TokensFound(_, _, _, _)
TokensFound(pattern, lines, k, ignore_case) ==
    IF k > Len(lines) THEN << >>
    ELSE TokensOfMatches(lines[k], LineOffset(lines, k),
                         finditer(pattern, lines[k], ignore_case))
           \o TokensFound(pattern, lines, k + 1, ignore_case)

\* token.replace(',', '')
WithoutComma(token) == SelectSeq(token, LAMBDA c : c # ",")

\* value >= 1.0 for float(token.replace(',', '')), '0' put before a leading '.'
AtLeastOne(numeric) ==
    ParseFloat(IF At(numeric.token, 1) = "."
               THEN <<"0">> \o WithoutComma(numeric.token)
               ELSE WithoutComma(numeric.token)) >= Hundred

\* The three strategies of extract_numeric_tokens, in the order of the code.
StrategyTokens(lines) ==
    TokensFound(token_currency_patterns[1], lines, 1, TRUE)
      \o TokensFound(token_currency_patterns[2], lines, 1, TRUE)
      \o TokensFound(token_currency_patterns[3], lines, 1, TRUE)
      \o TokensFound(token_currency_patterns[4], lines, 1, TRUE)
      \o SelectSeq(TokensFound(number_patterns[1], lines, 1, FALSE), AtLeastOne)
      \o SelectSeq(TokensFound(number_patterns[2], lines, 1, FALSE), AtLeastOne)
      \o SelectSeq(TokensFound(number_patterns[3], lines, 1, FALSE), AtLeastOne)
      \o TokensFound(percentage_pattern, lines, 1, FALSE)

\* position_key = (position // 5) * 5
position_key(numeric) == (numeric.position \div 5) * 5

\* any(char in t for char in ['%', '$', '₹', 'Rs'])
IsSpecial(numeric) ==
    \/ \E i \in 1..Len(numeric.token) : numeric.token[i] \in {"%", "$", "₹"}
    \/ Contains(numeric.token, <<"R", "s">>)

\* max(tokens, key=lambda x: len(x[0])): the first of the longest.
Longest(tokens) ==
    tokens[CHOOSE k \in 1..Len(tokens) :
              /\ \A j \in 1..Len(tokens) : Len(tokens[j].token) <= Len(tokens[k].token)
              /\ \A j \in 1..(k - 1) : Len(tokens[j].token) < Len(tokens[k].token)]

BestOf(group_tokens, special_tokens) ==
    IF Len(group_tokens) = 1 THEN group_tokens[1]
    ELSE IF special_tokens # << >> THEN Longest(special_tokens)
    ELSE Longest(group_tokens)

\* The best token of the group of a key.
BestToken(tokens, key) ==
    BestOf(SelectSeq(tokens, LAMBDA t : position_key(t) = key),
           SelectSeq(tokens, LAMBDA t : position_key(t) = key /\ IsSpecial(t)))

\* The groups in the order in which their keys first appear, one token each.
UniqueTokens(tokens, keys) == [g \in 1..Len(keys) |-> BestToken(tokens, keys[g]).token]

GroupedTokens(tokens) ==
    UniqueTokens(tokens, Unique([k \in 1..Len(tokens) |-> position_key(tokens[k])]))

\* extract_numeric_tokens(text): the tokens, without positions and contexts.
extract_numeric_tokens(lines) == GroupedTokens(StrategyTokens(lines))

(***************************************************************************)
(* CurrencyDetector.detect_currency (utils/currency_utils.py)              *)
(***************************************************************************)
\* The word, its last character optional: r"Rs\.?", r"Rupees?".
OptionalLast(word) ==
    Cat(Literal(SubSeq(word, 1, Len(word) - 1)), Opt(Chars({ word[Len(word)] })))

\* settings.CURRENCY_PATTERNS, compiled with re.IGNORECASE.
CURRENCY_PATTERNS ==
    << <<"INR", << Literal(<<"I", "N", "R">>), OptionalLast(<<"R", "s", ".">>),
                   Chars({"₹"}), OptionalLast(<<"R", "u", "p", "e", "e", "s">>) >> >>,
       <<"USD", << Literal(<<"U", "S", "D">>), Chars({"$"}),
                   OptionalLast(<<"D", "o", "l", "l", "a", "r", "s">>) >> >>,
       <<"EUR", << Literal(<<"E", "U", "R">>), Chars({"€"}),
                   OptionalLast(<<"E", "u", "r", "o", "s">>) >> >>,
       <<"GBP", << Literal(<<"G", "B", "P">>), Chars({"£"}),
                   OptionalLast(<<"P", "o", "u", "n", "d", "s">>) >> >> >>

\* len(matches) * 0.3, and position_bonus * 0.2 with
\* position_bonus = max(0, 1 - match.start() / len(text)) for the first
\* match; in units of One, fractions of a unit dropped.  The scores are
\* added exactly; the floats of the code can differ from them in the last bit.
MatchScore(matches, length) ==
    IF matches = << >> THEN 0
    ELSE Len(matches) * 3 * Tenth
           + ((One \div 5) * (length - matches[1].position)) \div length

\* The score of the first k patterns of a currency.
RECURSIVE PatternsScore(_, _, _)
PatternsScore(patterns, lines, k) ==
    IF k = 0 THEN 0
    ELSE PatternsScore(patterns, lines, k - 1)
           + MatchScore(TokensFound(patterns[k], lines, 1, TRUE), JoinedLength(lines))

\* currency_scores: the currencies whose score is above 0, in the order of
\* the settings.
CurrencyScore(currency, score) ==
    IF score > 0 THEN << [currency |-> currency, score |-> score] >> ELSE << >>

RECURSIVE CurrencyScores(_, _)
CurrencyScores(lines, k) ==
    IF k > Len(CURRENCY_PATTERNS) THEN << >>
    ELSE CurrencyScore(CURRENCY_PATTERNS[k][1],
                       PatternsScore(CURRENCY_PATTERNS[k][2], lines,
                                     Len(CURRENCY_PATTERNS[k][2])))
           \o CurrencyScores(lines, k + 1)

\* max(currency_scores.items(), key=lambda x: x[1]): the first of the highest.
BestCurrency(scores) ==
    scores[CHOOSE k \in 1..Len(scores) :
              /\ \A j \in 1..Len(scores) : scores[j].score <= scores[k].score
              /\ \A j \in 1..(k - 1) : scores[j].score < scores[k].score]

Detected(scores) ==
    IF scores = << >> THEN [currency |-> "UNKNOWN", confidence |-> 0]
    ELSE [currency |-> BestCurrency(scores).currency,
          confidence |-> Min(One, BestCurrency(scores).score)]

\* detect_currency with the score of the best currency returned as it is.
detect_currency_unclamped(lines) ==
    IF CurrencyScores(lines, 1) = << >> THEN [currency |-> "UNKNOWN", confidence |-> 0]
    ELSE [currency |-> BestCurrency(CurrencyScores(lines, 1)).currency,
          confidence |-> BestCurrency(CurrencyScores(lines, 1)).score]

\* detect_currency(text), the text in lines.
detect_currency(lines) == Detected(CurrencyScores(lines, 1))

\* The text of a bill as extract_from_text meets it: a string that is not
\* blank, the numeric tokens of its cleaned text, the currency of its cleaned
\* text and the currency of the text itself.
BillText(lines) ==
    [is_str |-> TRUE, len |-> JoinedLength(lines), stripped_len |-> JoinedLength(lines),
     tokens |-> extract_numeric_tokens(clean_text(lines)),
     detected |-> [cleaned |-> detect_currency(clean_text(lines)),
                   original |-> detect_currency(lines).currency]]

(***************************************************************************)
(* ClassificationService (services/classification_service.py)              *)
(***************************************************************************)
\* s.replace(old, new) within a line.
RECURSIVE Replaced(_, _, _)
Replaced(s, old, new) ==
    IF s = << >> THEN << >>
    ELSE IF Len(old) <= Len(s) /\ SubSeq(s, 1, Len(old)) = old
    THEN new \o Replaced(SubSeq(s, Len(old) + 1, Len(s)), old, new)
    ELSE << s[1] >> \o Replaced(Tail(s), old, new)

AnyLineContains(lines, sub) == \E k \in 1..Len(lines) : Contains(lines[k], sub)

\* 'discount' in corrected_text.lower() and '1%' in corrected_text
HasDiscountPercentage(lines) ==
    /\ \E k \in 1..Len(lines) : Contains(Lower(lines[k]), <<"d", "i", "s", "c", "o", "u", "n", "t">>)
    /\ AnyLineContains(lines, <<"1", "%">>)

\* Lines 110-117: '1%' becomes '10%' in a text with a discount, then 'Du0:'
\* becomes 'Due:' and 'Tota1:' becomes 'Total:'.
FieldNamesFixed(line, discount) ==
    Replaced(Replaced(IF discount THEN Replaced(line, <<"1", "%">>, <<"1", "0", "%">>) ELSE line,
                      <<"D", "u", "0", ":">>, <<"D", "u", "e", ":">>),
             <<"T", "o", "t", "a", "1", ":">>, <<"T", "o", "t", "a", "l", ":">>)

\* search_text, from the text correct_ocr_digits returned.
search_text(lines) ==
    [k \in 1..Len(lines) |-> FieldNamesFixed(lines[k], HasDiscountPercentage(lines))]

\* str(int(amount)) if amount.is_integer() else str(amount)
amount_str(amount) ==
    IF amount % Hundred = 0 THEN DecimalDigits(amount \div Hundred) ELSE FloatStr(amount)

\* amount_str inside a pattern, not escaped: its dot matches any character.
Unescaped(str) == Pattern([i \in 1..Len(str) |-> IF str[i] = "." THEN AnyChar ELSE Chars({ str[i] })])

\* f"Rs\\.{amount_str}\\b", f"Rs\\. {amount_str}\\b", f"₹{amount_str}\\b",
\* f"₹ {amount_str}\\b" and f"\\b{amount_str}\\b"
amount_patterns(str) ==
    << Pattern(<< Literal(<<"R", "s", ".">>), Unescaped(str), Wb >>),
       Pattern(<< Literal(<<"R", "s", ".", " ">>), Unescaped(str), Wb >>),
       Pattern(<< Chars({"₹"}), Unescaped(str), Wb >>),
       Pattern(<< Literal(<<"₹", " ">>), Unescaped(str), Wb >>),
       Pattern(<< Wb, Unescaped(str), Wb >>) >>

\* any(symbol in pattern for symbol in ['Rs.', '₹']): the first two patterns
\* hold 'Rs\.', which is not 'Rs.'.
NamesCurrency(p) == p \in {3, 4}

\* The characters at which a context ends: '\n', '.' and '|'. A line ends at
\* a '\n'.
ContextStops == {".", "|"}

\* Lines 135-140 within the line of the match: back from start to the stop
\* before it and at most 41 characters.
RECURSIVE ContextStart(_, _, _)
ContextStart(line, context_start, start) ==
    IF context_start > 1 /\ line[context_start - 1] \notin ContextStops
    THEN IF start - (context_start - 1) > 40 THEN context_start - 1
         ELSE ContextStart(line, context_start - 1, start)
    ELSE context_start

\* Lines 143-147: forward from end, the position after the match.
RECURSIVE ContextEnd(_, _, _)
ContextEnd(line, context_end, end) ==
    IF context_end <= Len(line) /\ line[context_end] \notin ContextStops
    THEN IF (context_end + 1) - end > 40 THEN context_end + 1
         ELSE ContextEnd(line, context_end + 1, end)
    ELSE context_end

\* search_text[context_start:context_end].strip()
ContextOf(line, found) ==
    Strip(Slice(line, ContextStart(line, found.start, found.start),
                ContextEnd(line, found.end, found.end) - 1))

\* context_score: descriptive_before searches the context for the escaped
\* pattern, which holds the backslashes of its \. and \b, and finds nothing in
\* a text without backslashes; 2 for a pattern with a currency symbol and 1
\* for a context shorter than 80.
Scored(context, p) ==
    [context |-> context,
     score |-> (IF NamesCurrency(p) THEN 2 ELSE 0) + (IF Len(context) < 80 THEN 1 ELSE 0)]

ContextsOfMatches(line, matches, p) ==
    [m \in 1..Len(matches) |-> Scored(ContextOf(line, matches[m]), p)]

\* The contexts of the matches of pattern p in the lines from k on.
RECURSIVE PatternContexts(_, _, _, _)
PatternContexts(patterns, p, lines, k) ==
    IF k > Len(lines) THEN << >>
    ELSE ContextsOfMatches(lines[k], finditer(patterns[p], lines[k], TRUE), p)
           \o PatternContexts(patterns, p, lines, k + 1)

\* The contexts of all matches, in the order of the two loops.
RECURSIVE AllContexts(_, _, _)
AllContexts(patterns, p, lines) ==
    IF p > Len(patterns) THEN << >>
    ELSE PatternContexts(patterns, p, lines, 1) \o AllContexts(patterns, p + 1, lines)

\* if context_score > best_context_score: the first of the contexts with the
\* highest score, the score above 0. The text without a match of the amount
\* gives no context here: lines 167-225 then search the text for a percentage
\* and for the digits of the amount.
NoContext == << >>

BestContext(contexts) ==
    IF \A k \in 1..Len(contexts) : contexts[k].score = 0 THEN NoContext
    ELSE contexts[CHOOSE k \in 1..Len(contexts) :
                     /\ \A j \in 1..Len(contexts) : contexts[j].score <= contexts[k].score
                     /\ \A j \in 1..(k - 1) : contexts[j].score < contexts[k].score].context

\* amount_contexts[amount] of _find_amount_contexts, lines the search_text.
find_amount_context(amount, lines) ==
    BestContext(AllContexts(amount_patterns(amount_str(amount)), 1, lines))

\* [a-zA-Z][a-zA-Z\s\-]+
ServiceName ==
    Cat(Chars(AsciiLetters), Plus(Chars(AsciiLetters \cup SpaceChars \cup {"-"})))

\* Rs\.?\s*
RsPrefix == Pattern(<< Literal(<<"R", "s">>), Opt(Chars({"."})), Blanks >>)

\* What follows the group of the three direct_patterns, amount_str escaped.
direct_patterns(str) ==
    << Pattern(<< Chars({":"}), Blanks, RsPrefix, Literal(str) >>),
       Pattern(<< Plus(Chars(SpaceChars)), RsPrefix, Literal(str) >>),
       Pattern(<< Blanks, Chars({"₹"}), Blanks, Literal(str) >>) >>

\* The values of AmountType (models/data_models.py), as the strings they are.
TypeTotalBill == <<"t", "o", "t", "a", "l", "_", "b", "i", "l", "l">>

TypePaid == <<"p", "a", "i", "d">>

TypeDue == <<"d", "u", "e">>

TypeBalance == <<"b", "a", "l", "a", "n", "c", "e">>

TypeDiscount == <<"d", "i", "s", "c", "o", "u", "n", "t">>

TypeTax == <<"t", "a", "x">>

TypeCopay == <<"c", "o", "p", "a", "y">>

TypeDeductible == <<"d", "e", "d", "u", "c", "t", "i", "b", "l", "e">>

TypeInsuranceCovered == <<"i", "n", "s", "u", "r", "a", "n", "c", "e", "_", "c", "o", "v", "e", "r", "e", "d">>

TypeConsultation == <<"c", "o", "n", "s", "u", "l", "t", "a", "t", "i", "o", "n">>

TypeXRay == <<"x", "_", "r", "a", "y">>

TypeMedicine == <<"m", "e", "d", "i", "c", "i", "n", "e">>

TypeBloodTest == <<"b", "l", "o", "o", "d", "_", "t", "e", "s", "t">>

TypeUltrasound == <<"u", "l", "t", "r", "a", "s", "o", "u", "n", "d">>

TypeScan == <<"s", "c", "a", "n">>

TypeInjection == <<"i", "n", "j", "e", "c", "t", "i", "o", "n">>

TypeEcg == <<"e", "c", "g">>

TypeNursing == <<"n", "u", "r", "s", "i", "n", "g">>

TypePhysiotherapy == <<"p", "h", "y", "s", "i", "o", "t", "h", "e", "r", "a", "p", "y">>

TypeMri == <<"m", "r", "i">>

TypeCtScan == <<"c", "t", "_", "s", "c", "a", "n">>

TypePetScan == <<"p", "e", "t", "_", "s", "c", "a", "n">>

TypeEndoscopy == <<"e", "n", "d", "o", "s", "c", "o", "p", "y">>

TypeBiopsy == <<"b", "i", "o", "p", "s", "y">>

TypeSurgery == <<"s", "u", "r", "g", "e", "r", "y">>

TypeLabTest == <<"l", "a", "b", "_", "t", "e", "s", "t">>

TypePathology == <<"p", "a", "t", "h", "o", "l", "o", "g", "y">>

TypeRadiology == <<"r", "a", "d", "i", "o", "l", "o", "g", "y">>

TypeOther == <<"o", "t", "h", "e", "r">>

AmountTypes ==
    { TypeTotalBill, TypePaid, TypeDue, TypeBalance, TypeDiscount,
      TypeTax, TypeCopay, TypeDeductible, TypeInsuranceCovered, TypeConsultation,
      TypeXRay, TypeMedicine, TypeBloodTest, TypeUltrasound, TypeScan,
      TypeInjection, TypeEcg, TypeNursing, TypePhysiotherapy, TypeMri,
      TypeCtScan, TypePetScan, TypeEndoscopy, TypeBiopsy, TypeSurgery,
      TypeLabTest, TypePathology, TypeRadiology, TypeOther }

\* service_mappings in the order of its keys: the key and the type.
service_mappings ==
    << <<<<"f", "i", "n", "a", "l", " ", "a", "m", "o", "u", "n", "t">>, TypeTotalBill>>,
       <<<<"g", "r", "a", "n", "d", " ", "t", "o", "t", "a", "l">>, TypeTotalBill>>,
       <<<<"n", "e", "t", " ", "a", "m", "o", "u", "n", "t">>, TypeTotalBill>>,
       <<<<"t", "o", "t", "a", "l", " ", "a", "m", "o", "u", "n", "t">>, TypeTotalBill>>,
       <<<<"s", "u", "b", " ", "t", "o", "t", "a", "l">>, TypeTotalBill>>,
       <<<<"s", "u", "b", "t", "o", "t", "a", "l">>, TypeTotalBill>>,
       <<<<"a", "m", "o", "u", "n", "t", " ", "p", "a", "i", "d">>, TypePaid>>,
       <<<<"p", "a", "i", "d", " ", "a", "m", "o", "u", "n", "t">>, TypePaid>>,
       <<<<"p", "a", "y", "m", "e", "n", "t">>, TypePaid>>,
       <<<<"a", "m", "o", "u", "n", "t", " ", "d", "u", "e">>, TypeDue>>,
       <<<<"d", "u", "e", " ", "a", "m", "o", "u", "n", "t">>, TypeDue>>,
       <<<<"b", "a", "l", "a", "n", "c", "e">>, TypeDue>>,
       <<<<"o", "u", "t", "s", "t", "a", "n", "d", "i", "n", "g">>, TypeDue>>,
       <<<<"d", "i", "s", "c", "o", "u", "n", "t">>, TypeDiscount>>,
       <<<<"c", "o", "n", "c", "e", "s", "s", "i", "o", "n">>, TypeDiscount>>,
       <<<<"t", "a", "x">>, TypeTax>>,
       <<<<"g", "s", "t">>, TypeTax>>,
       <<<<"v", "a", "t">>, TypeTax>>,
       <<<<"c", "o", "n", "s", "u", "l", "t", "a", "t", "i", "o", "n">>, TypeConsultation>>,
       <<<<"c", "o", "n", "s", "u", "l", "t">>, TypeConsultation>>,
       <<<<"x", "-", "r", "a", "y">>, TypeXRay>>,
       <<<<"x", " ", "r", "a", "y">>, TypeXRay>>,
       <<<<"x", "r", "a", "y">>, TypeXRay>>,
       <<<<"m", "e", "d", "i", "c", "i", "n", "e">>, TypeMedicine>>,
       <<<<"m", "e", "d", "i", "c", "a", "t", "i", "o", "n">>, TypeMedicine>>,
       <<<<"b", "l", "o", "o", "d", " ", "t", "e", "s", "t">>, TypeBloodTest>>,
       <<<<"b", "l", "o", "o", "d">>, TypeBloodTest>>,
       <<<<"u", "l", "t", "r", "a", "s", "o", "u", "n", "d">>, TypeUltrasound>>,
       <<<<"s", "c", "a", "n">>, TypeScan>>,
       <<<<"i", "n", "j", "e", "c", "t", "i", "o", "n">>, TypeInjection>>,
       <<<<"e", "c", "g">>, TypeEcg>>,
       <<<<"n", "u", "r", "s", "i", "n", "g">>, TypeNursing>>,
       <<<<"p", "h", "y", "s", "i", "o", "t", "h", "e", "r", "a", "p", "y">>, TypePhysiotherapy>>,
       <<<<"p", "h", "y", "s", "i", "o">>, TypePhysiotherapy>>,
       <<<<"m", "r", "i">>, TypeMri>>,
       <<<<"c", "t", " ", "s", "c", "a", "n">>, TypeCtScan>>,
       <<<<"c", "t">>, TypeCtScan>>,
       <<<<"p", "e", "t", " ", "s", "c", "a", "n">>, TypePetScan>>,
       <<<<"p", "e", "t">>, TypePetScan>>,
       <<<<"e", "n", "d", "o", "s", "c", "o", "p", "y">>, TypeEndoscopy>>,
       <<<<"b", "i", "o", "p", "s", "y">>, TypeBiopsy>>,
       <<<<"s", "u", "r", "g", "e", "r", "y">>, TypeSurgery>>,
       <<<<"o", "p", "e", "r", "a", "t", "i", "o", "n">>, TypeSurgery>>,
       <<<<"l", "a", "b", " ", "t", "e", "s", "t">>, TypeLabTest>>,
       <<<<"l", "a", "b", "o", "r", "a", "t", "o", "r", "y">>, TypeLabTest>>,
       <<<<"p", "a", "t", "h", "o", "l", "o", "g", "y">>, TypePathology>>,
       <<<<"r", "a", "d", "i", "o", "l", "o", "g", "y">>, TypeRadiology>>,
       <<<<"t", "o", "t", "a", "l">>, TypeTotalBill>>,
       <<<<"p", "a", "i", "d">>, TypePaid>>,
       <<<<"d", "u", "e">>, TypeDue>> >>

\* financial_terms
financial_terms ==
    { <<"t", "o", "t", "a", "l">>,
      <<"p", "a", "i", "d">>,
      <<"d", "u", "e">>,
      <<"d", "i", "s", "c", "o", "u", "n", "t">>,
      <<"t", "a", "x">>,
      <<"a", "m", "o", "u", "n", "t">>,
      <<"b", "i", "l", "l">>,
      <<"b", "a", "l", "a", "n", "c", "e">> }

\* settings.AMOUNT_TYPE_KEYWORDS in the order of its keys: the type and its
\* keywords.
AMOUNT_TYPE_KEYWORDS ==
    << <<TypeTotalBill,
          << <<"t", "o", "t", "a", "l">>,
             <<"a", "m", "o", "u", "n", "t">>,
             <<"b", "i", "l", "l">>,
             <<"i", "n", "v", "o", "i", "c", "e">>,
             <<"g", "r", "a", "n", "d", " ", "t", "o", "t", "a", "l">> >> >>,
       <<TypePaid,
          << <<"p", "a", "i", "d">>,
             <<"p", "a", "y", "m", "e", "n", "t">>,
             <<"r", "e", "c", "e", "i", "v", "e", "d">>,
             <<"c", "o", "l", "l", "e", "c", "t", "e", "d">> >> >>,
       <<TypeDue,
          << <<"d", "u", "e">>,
             <<"b", "a", "l", "a", "n", "c", "e">>,
             <<"o", "u", "t", "s", "t", "a", "n", "d", "i", "n", "g">>,
             <<"p", "e", "n", "d", "i", "n", "g">>,
             <<"o", "w", "e", "d">> >> >>,
       <<TypeDiscount,
          << <<"d", "i", "s", "c", "o", "u", "n", "t">>,
             <<"o", "f", "f">>,
             <<"r", "e", "d", "u", "c", "t", "i", "o", "n">>,
             <<"c", "o", "n", "c", "e", "s", "s", "i", "o", "n">> >> >>,
       <<TypeTax,
          << <<"t", "a", "x">>,
             <<"g", "s", "t">>,
             <<"v", "a", "t">>,
             <<"s", "e", "r", "v", "i", "c", "e", " ", "t", "a", "x">> >> >>,
       <<TypeCopay,
          << <<"c", "o", "p", "a", "y">>,
             <<"c", "o", "-", "p", "a", "y">>,
             <<"p", "a", "t", "i", "e", "n", "t", " ", "s", "h", "a", "r", "e">> >> >>,
       <<TypeDeductible,
          << <<"d", "e", "d", "u", "c", "t", "i", "b", "l", "e">>,
             <<"e", "x", "c", "e", "s", "s">> >> >>,
       <<TypeInsuranceCovered,
          << <<"i", "n", "s", "u", "r", "a", "n", "c", "e">>,
             <<"c", "o", "v", "e", "r", "e", "d">>,
             <<"c", "l", "a", "i", "m">>,
             <<"r", "e", "i", "m", "b", "u", "r", "s", "e", "d">> >> >> >>

\* standard_types and known_medical_services of _extract_item_name.
standard_types ==
    { TypeTotalBill, TypePaid, TypeDue, TypeDiscount, TypeTax, TypeCopay }

known_medical_services ==
    { TypeConsultation, TypeXRay, TypeMedicine, TypeBloodTest, TypeUltrasound,
      TypeScan, TypeInjection, TypeEcg, TypeNursing, TypePhysiotherapy,
      TypeMri, TypeCtScan, TypePetScan, TypeEndoscopy, TypeBiopsy,
      TypeSurgery, TypeLabTest, TypePathology, TypeRadiology }

\* The result of a search for a direct association.
Direct(found, type) == [found |-> found, type |-> type]

NotDirect == Direct(FALSE, << >>)

\* service_name.replace(' ', '').isalpha()
IsAlphaWithoutBlanks(name) ==
    /\ \E i \in 1..Len(name) : name[i] # " "
    /\ \A i \in 1..Len(name) : name[i] = " " \/ name[i] \in AsciiLetters

\* service_name.lower().replace(' ', '_').replace('-', '_')
DynamicType(name) ==
    [i \in 1..Len(name) |-> IF name[i] \in {" ", "-"} THEN "_" ELSE LowerLetter(name[i])]

\* Lines 347-366: the type of the first key of service_mappings inside the
\* service name; without one, the name itself when it is no financial term,
\* longer than 2 and alphabetic.
MappedService(service_name) ==
    IF \E k \in 1..Len(service_mappings) : Contains(service_name, service_mappings[k][1])
    THEN Direct(TRUE, service_mappings[
                          CHOOSE k \in 1..Len(service_mappings) :
                             /\ Contains(service_name, service_mappings[k][1])
                             /\ \A j \in 1..(k - 1) :
                                   ~Contains(service_name, service_mappings[j][1])][2])
    ELSE IF /\ service_name \notin financial_terms
            /\ Len(Strip(service_name)) > 2
            /\ IsAlphaWithoutBlanks(service_name)
    THEN Direct(TRUE, DynamicType(service_name))
    ELSE NotDirect

\* match.group(1).strip().lower() of a match, and its association.
AssociationOf(context, found) ==
    IF found = NoMatch THEN NotDirect
    ELSE MappedService(Lower(Strip(Slice(context, found.start, found.group_end - 1))))

\* The loop over direct_patterns from pattern p on: the first association
\* found.
RECURSIVE DirectAssociation(_, _, _)
AssociatedOr(context, str, p, association) ==
    IF association.found THEN association ELSE DirectAssociation(context, str, p + 1)

DirectAssociation(context, str, p) ==
    IF p > Len(direct_patterns(str)) THEN NotDirect
    ELSE AssociatedOr(context, str, p,
                      AssociationOf(context, Search(ServiceName, direct_patterns(str)[p],
                                                    context, 1, TRUE)))

\* (AmountType, confidence, source): of the source only the service name
\* after "Direct association found:" is kept, << >> without one.
Classified(amount_type, confidence, dynamic_service) ==
    [type |-> amount_type, confidence |-> confidence, dynamic_service |-> dynamic_service]

\* Lines 372-380: AmountType(direct_type), or OTHER with the name in the source.
DirectlyClassified(direct_type) ==
    IF direct_type \in AmountTypes THEN Classified(direct_type, 9 * Tenth, << >>)
    ELSE Classified(TypeOther, 9 * Tenth, direct_type)

\* r'\b' + re.escape(keyword.lower()) + r'\b'
keyword_pattern(keyword) == Pattern(<< Wb, Literal(Lower(keyword)), Wb >>)

\* len(re.findall(keyword_pattern, full_text)), no keyword standing across
\* the blank between two lines of a bill.
RECURSIVE CountInLines(_, _, _)
CountInLines(pattern, lines, k) ==
    IF k > Len(lines) THEN 0
    ELSE Len(finditer(pattern, lines[k], FALSE)) + CountInLines(pattern, lines, k + 1)

\* The score of the first k keywords of a type, in halves: matches * 2 in the
\* context and matches * 0.5 in the full text.
RECURSIVE KeywordsScore(_, _, _, _)
KeywordsScore(keywords, context_lower, full_text, k) ==
    IF k = 0 THEN 0
    ELSE KeywordsScore(keywords, context_lower, full_text, k - 1)
           + 4 * Len(finditer(keyword_pattern(keywords[k]), context_lower, FALSE))
           + CountInLines(keyword_pattern(keywords[k]), full_text, 1)

TypeScore(type, score) == [type |-> type, score |-> score]

\* type_scores: the types with a score above 0, in the order of the settings.
ScoredAboveZero(type, score) == IF score > 0 THEN << TypeScore(type, score) >> ELSE << >>

RECURSIVE KeywordScores(_, _, _)
KeywordScores(context_lower, full_text, t) ==
    IF t > Len(AMOUNT_TYPE_KEYWORDS) THEN << >>
    ELSE ScoredAboveZero(AMOUNT_TYPE_KEYWORDS[t][1],
                         KeywordsScore(AMOUNT_TYPE_KEYWORDS[t][2], context_lower, full_text,
                                       Len(AMOUNT_TYPE_KEYWORDS[t][2])))
           \o KeywordScores(context_lower, full_text, t + 1)

HasType(type_scores, type) == \E k \in 1..Len(type_scores) : type_scores[k].type = type

\* type_scores[type] = (score + by, ...) when the type has a score.
Raised(type_scores, type, by) ==
    [k \in 1..Len(type_scores) |->
        IF type_scores[k].type = type
        THEN TypeScore(type, type_scores[k].score + by) ELSE type_scores[k]]

\* Lines 445-450: an amount up to 100 with '%', 'percent' or 'discount' in
\* its context.
PercentageHeuristic(amount, type_scores, context_lower) ==
    IF /\ 0 < amount /\ amount <= 100 * Hundred
       /\ \/ Contains(context_lower, <<"%">>)
          \/ Contains(context_lower, <<"p", "e", "r", "c", "e", "n", "t">>)
          \/ Contains(context_lower, <<"d", "i", "s", "c", "o", "u", "n", "t">>)
    THEN Raised(type_scores, TypeDiscount, 4)
    ELSE type_scores

\* Lines 453-458: an amount above 1000.
LargeAmountHeuristic(amount, type_scores) ==
    IF amount <= 1000 * Hundred THEN type_scores
    ELSE IF HasType(type_scores, TypeTotalBill) THEN Raised(type_scores, TypeTotalBill, 2)
    ELSE Append(type_scores, TypeScore(TypeTotalBill, 2))

\* Lines 461-466: an amount from 10 to 100.
SmallAmountHeuristic(amount, type_scores) ==
    IF 10 * Hundred <= amount /\ amount <= 100 * Hundred
    THEN Raised(Raised(type_scores, TypeCopay, 1), TypeDiscount, 1)
    ELSE type_scores

\* s.find(sub) within a line, counted from 0; -1 without an occurrence.
FindInLine(s, sub) ==
    IF ~Contains(s, sub) THEN 0 - 1
    ELSE (CHOOSE i \in 1..(Len(s) + 1) :
             /\ SubSeq(s, i, i + Len(sub) - 1) = sub
             /\ \A j \in 1..(i - 1) : SubSeq(s, j, j + Len(sub) - 1) # sub) - 1

\* full_text.find(context): the context of an amount lies within one line.
RECURSIVE FindInLines(_, _, _)
FindInLines(lines, sub, k) ==
    IF k > Len(lines) THEN 0 - 1
    ELSE IF Contains(lines[k], sub) THEN LineOffset(lines, k) + FindInLine(lines[k], sub)
    ELSE FindInLines(lines, sub, k + 1)

\* Lines 469-481: relative_position below 0.3 raises total_bill, above 0.7 due.
PositionHeuristic(type_scores, context_position, length) ==
    IF context_position < 0 THEN type_scores
    ELSE Raised(Raised(type_scores, TypeTotalBill,
                       IF 10 * context_position < 3 * length THEN 1 ELSE 0),
                TypeDue,
                IF 10 * context_position > 7 * length THEN 1 ELSE 0)

\* _apply_amount_heuristics
apply_amount_heuristics(amount, type_scores, context_lower, full_text) ==
    PositionHeuristic(
        SmallAmountHeuristic(amount,
            LargeAmountHeuristic(amount,
                PercentageHeuristic(amount, type_scores, context_lower))),
        FindInLines(full_text, context_lower, 1), JoinedLength(full_text))

\* max(type_scores.keys(), key=lambda k: type_scores[k][0]): the first of the
\* types with the highest score.
BestType(type_scores) ==
    type_scores[CHOOSE k \in 1..Len(type_scores) :
                   /\ \A j \in 1..Len(type_scores) : type_scores[j].score <= type_scores[k].score
                   /\ \A j \in 1..(k - 1) : type_scores[j].score < type_scores[k].score]

\* Lines 411-423: confidence = min(1.0, best_score * 0.1), the score in halves.
KeywordClassified(type_scores) ==
    IF type_scores = << >> THEN Classified(TypeOther, 2 * Tenth, << >>)
    ELSE Classified(BestType(type_scores).type,
                    Min(One, (BestType(type_scores).score * One) \div 20), << >>)

Associated(direct, amount, context, full_text) ==
    IF direct.found THEN DirectlyClassified(direct.type)
    ELSE KeywordClassified(
             apply_amount_heuristics(amount,
                                     KeywordScores(Lower(context), full_text, 1),
                                     Lower(context), full_text))

\* _classify_single_amount(amount, context, full_text)
classify_single_amount(amount, context, full_text) ==
    Associated(DirectAssociation(context, amount_str(amount), 1), amount, context, full_text)

\* Lines 709-720: the label of an amount the context gives no name.
SizeLabel(amount) ==
    IF amount >= 1000 * Hundred
    THEN <<"m", "a", "j", "o", "r", "_", "s", "e", "r", "v", "i", "c", "e">>
    ELSE IF amount >= 500 * Hundred
    THEN <<"s", "t", "a", "n", "d", "a", "r", "d", "_", "s", "e", "r", "v", "i", "c", "e">>
    ELSE IF amount >= 100 * Hundred
    THEN <<"m", "i", "n", "o", "r", "_", "s", "e", "r", "v", "i", "c", "e">>
    ELSE <<"b", "a", "s", "i", "c", "_", "s", "e", "r", "v", "i", "c", "e">>

\* item_patterns of _extract_item_name, in the order of its keys: the item
\* name and its patterns.
item_patterns ==
    << << <<"c", "o", "n", "s", "u", "l", "t", "a", "t", "i", "o", "n">>,
          << Literal(<<"c", "o", "n", "s", "u", "l", "t", "a", "t", "i", "o", "n">>),
             Literal(<<"c", "o", "n", "s", "u", "l", "t">>),
             Pattern(<< Literal(<<"d", "o", "c", "t", "o", "r">>), Plus(Chars(SpaceChars)), Literal(<<"f", "e", "e">>) >>),
             Literal(<<"p", "h", "y", "s", "i", "c", "i", "a", "n">>),
             Literal(<<"v", "i", "s", "i", "t">>) >> >>,
       << <<"x", "_", "r", "a", "y">>,
          << Pattern(<< Chars({"x"}), Opt(Chars(SpaceChars \cup {"-"})), Literal(<<"r", "a", "y">>) >>),
             Literal(<<"x", "r", "a", "y">>),
             Literal(<<"r", "a", "d", "i", "o", "g", "r", "a", "p", "h">>) >> >>,
       << <<"m", "e", "d", "i", "c", "i", "n", "e">>,
          << Literal(<<"m", "e", "d", "i", "c", "i", "n", "e">>),
             Literal(<<"m", "e", "d", "i", "c", "a", "t", "i", "o", "n">>),
             Pattern(<< Literal(<<"d", "r", "u", "g">>), Opt(Chars({"s"})) >>),
             Literal(<<"p", "h", "a", "r", "m", "a">>) >> >>,
       << <<"b", "l", "o", "o", "d", "_", "t", "e", "s", "t">>,
          << Pattern(<< Literal(<<"b", "l", "o", "o", "d">>), Plus(Chars(SpaceChars)), Literal(<<"t", "e", "s", "t">>) >>),
             Pattern(<< Literal(<<"l", "a", "b">>), Plus(Chars(SpaceChars)), Literal(<<"t", "e", "s", "t">>) >>),
             Literal(<<"l", "a", "b", "o", "r", "a", "t", "o", "r", "y">>),
             Literal(<<"b", "l", "o", "o", "d">>) >> >>,
       << <<"s", "c", "a", "n">>,
          << Literal(<<"s", "c", "a", "n">>),
             Pattern(<< Literal(<<"c", "t">>), Plus(Chars(SpaceChars)), Literal(<<"s", "c", "a", "n">>) >>),
             Literal(<<"m", "r", "i">>) >> >>,
       << <<"u", "l", "t", "r", "a", "s", "o", "u", "n", "d">>,
          << Literal(<<"u", "l", "t", "r", "a", "s", "o", "u", "n", "d">>),
             Literal(<<"s", "o", "n", "o", "g", "r", "a", "p", "h", "y">>),
             Literal(<<"s", "o", "n", "o">>) >> >>,
       << <<"s", "u", "r", "g", "e", "r", "y">>,
          << Literal(<<"s", "u", "r", "g", "e", "r", "y">>),
             Literal(<<"o", "p", "e", "r", "a", "t", "i", "o", "n">>),
             Literal(<<"p", "r", "o", "c", "e", "d", "u", "r", "e">>) >> >>,
       << <<"i", "n", "j", "e", "c", "t", "i", "o", "n">>,
          << Literal(<<"i", "n", "j", "e", "c", "t", "i", "o", "n">>),
             Literal(<<"v", "a", "c", "c", "i", "n", "e">>),
             Literal(<<"s", "h", "o", "t">>) >> >>,
       << <<"e", "c", "g">>,
          << Literal(<<"e", "c", "g">>),
             Literal(<<"e", "k", "g">>),
             Literal(<<"e", "l", "e", "c", "t", "r", "o", "c", "a", "r", "d", "i", "o", "g", "r", "a", "m">>) >> >>,
       << <<"p", "h", "y", "s", "i", "o", "t", "h", "e", "r", "a", "p", "y">>,
          << Literal(<<"p", "h", "y", "s", "i", "o">>),
             Literal(<<"t", "h", "e", "r", "a", "p", "y">>),
             Literal(<<"r", "e", "h", "a", "b", "i", "l", "i", "t", "a", "t", "i", "o", "n">>),
             Literal(<<"p", "h", "y", "s", "i", "o", "t", "h", "e", "r", "a", "p", "y">>) >> >>,
       << <<"a", "m", "b", "u", "l", "a", "n", "c", "e">>,
          << Literal(<<"a", "m", "b", "u", "l", "a", "n", "c", "e">>),
             Literal(<<"t", "r", "a", "n", "s", "p", "o", "r", "t">>) >> >>,
       << <<"r", "o", "o", "m", "_", "c", "h", "a", "r", "g", "e", "s">>,
          << Literal(<<"r", "o", "o", "m">>),
             Literal(<<"b", "e", "d">>),
             Literal(<<"w", "a", "r", "d">>),
             Literal(<<"a", "c", "c", "o", "m", "m", "o", "d", "a", "t", "i", "o", "n">>),
             Literal(<<"c", "h", "a", "r", "g", "e", "s">>) >> >>,
       << <<"n", "u", "r", "s", "i", "n", "g">>,
          << Literal(<<"n", "u", "r", "s", "i", "n", "g">>),
             Literal(<<"n", "u", "r", "s", "e">>),
             Literal(<<"c", "a", "r", "e">>) >> >>,
       << <<"t", "e", "s", "t">>,
          << Pattern(<< Literal(<<"t", "e", "s", "t">>), NotBefore(Pattern(<< Plus(Chars(SpaceChars)), Literal(<<"r", "s">>) >>)) >>),
             Literal(<<"t", "e", "s", "t", "i", "n", "g">>) >> >> >>

\* The groups of medical_service_patterns, each searched between two \b.
medical_service_patterns ==
    << Alt(Literal(<<"c", "o", "n", "s", "u", "l", "t", "a", "t", "i", "o", "n">>), Alt(Literal(<<"c", "o", "n", "s", "u", "l", "t">>), Alt(Literal(<<"d", "o", "c", "t", "o", "r">>), Alt(Literal(<<"p", "h", "y", "s", "i", "c", "i", "a", "n">>), Literal(<<"v", "i", "s", "i", "t">>))))),
       Alt(Pattern(<< Chars({"x"}), Opt(Chars(SpaceChars \cup {"-"})), Literal(<<"r", "a", "y">>) >>), Alt(Literal(<<"x", "r", "a", "y">>), Literal(<<"r", "a", "d", "i", "o", "g", "r", "a", "p", "h">>))),
       Alt(Literal(<<"m", "e", "d", "i", "c", "i", "n", "e">>), Alt(Literal(<<"m", "e", "d", "i", "c", "a", "t", "i", "o", "n">>), Alt(Pattern(<< Literal(<<"d", "r", "u", "g">>), Opt(Chars({"s"})) >>), Literal(<<"p", "h", "a", "r", "m", "a">>)))),
       Alt(Literal(<<"b", "l", "o", "o", "d">>), Alt(Literal(<<"t", "e", "s", "t">>), Alt(Literal(<<"l", "a", "b">>), Literal(<<"l", "a", "b", "o", "r", "a", "t", "o", "r", "y">>)))),
       Alt(Literal(<<"s", "c", "a", "n">>), Alt(Literal(<<"c", "t">>), Alt(Literal(<<"m", "r", "i">>), Alt(Literal(<<"u", "l", "t", "r", "a", "s", "o", "u", "n", "d">>), Literal(<<"s", "o", "n", "o", "g", "r", "a", "p", "h", "y">>))))),
       Alt(Literal(<<"s", "u", "r", "g", "e", "r", "y">>), Alt(Literal(<<"o", "p", "e", "r", "a", "t", "i", "o", "n">>), Literal(<<"p", "r", "o", "c", "e", "d", "u", "r", "e">>))),
       Alt(Literal(<<"i", "n", "j", "e", "c", "t", "i", "o", "n">>), Alt(Literal(<<"v", "a", "c", "c", "i", "n", "e">>), Literal(<<"s", "h", "o", "t">>))),
       Alt(Literal(<<"e", "c", "g">>), Alt(Literal(<<"e", "k", "g">>), Literal(<<"e", "l", "e", "c", "t", "r", "o", "c", "a", "r", "d", "i", "o", "g", "r", "a", "m">>))),
       Alt(Literal(<<"p", "h", "y", "s", "i", "o">>), Alt(Literal(<<"t", "h", "e", "r", "a", "p", "y">>), Literal(<<"r", "e", "h", "a", "b", "i", "l", "i", "t", "a", "t", "i", "o", "n">>))),
       Alt(Literal(<<"a", "m", "b", "u", "l", "a", "n", "c", "e">>), Literal(<<"t", "r", "a", "n", "s", "p", "o", "r", "t">>)),
       Alt(Literal(<<"r", "o", "o", "m">>), Alt(Literal(<<"b", "e", "d">>), Alt(Literal(<<"w", "a", "r", "d">>), Literal(<<"a", "c", "c", "o", "m", "m", "o", "d", "a", "t", "i", "o", "n">>)))),
       Alt(Literal(<<"n", "u", "r", "s", "i", "n", "g">>), Alt(Literal(<<"n", "u", "r", "s", "e">>), Literal(<<"c", "a", "r", "e">>))),
       Alt(Literal(<<"c", "h", "e", "c", "k", "u", "p">>), Alt(Literal(<<"e", "x", "a", "m", "i", "n", "a", "t", "i", "o", "n">>), Literal(<<"e", "x", "a", "m">>))),
       Alt(Literal(<<"r", "e", "p", "o", "r", "t">>), Alt(Literal(<<"d", "i", "a", "g", "n", "o", "s", "t", "i", "c">>), Literal(<<"a", "n", "a", "l", "y", "s", "i", "s">>))) >>

\* exclude_words and exclude_generic of _extract_item_name.
exclude_words ==
    { <<"i", "t", "e", "m">>, <<"s", "e", "r", "v", "i", "c", "e">>, <<"c", "h", "a", "r", "g", "e">>, <<"f", "e", "e">>, <<"c", "o", "s", "t">>, <<"a", "m", "o", "u", "n", "t">>, <<"b", "i", "l", "l">>, <<"r", "s">>, <<"i", "n", "r">> }

exclude_generic ==
    { <<"i", "t", "e", "m">>,
      <<"s", "e", "r", "v", "i", "c", "e">>,
      <<"c", "h", "a", "r", "g", "e">>,
      <<"f", "e", "e">>,
      <<"c", "o", "s", "t">>,
      <<"a", "m", "o", "u", "n", "t">>,
      <<"b", "i", "l", "l">>,
      <<"t", "o", "t", "a", "l">>,
      <<"p", "a", "i", "d">>,
      <<"d", "u", "e">>,
      <<"b", "a", "l", "a", "n", "c", "e">> }

\* score of an item name: the matches of its patterns in the context, added.
RECURSIVE ItemScore(_, _, _)
ItemScore(patterns, context_lower, k) ==
    IF k = 0 THEN 0
    ELSE ItemScore(patterns, context_lower, k - 1)
           + Len(finditer(patterns[k], context_lower, FALSE))

\* item_scores: the item names with a score above 0, in the order of
\* item_patterns.
RECURSIVE ItemScores(_, _)
ItemScores(context_lower, t) ==
    IF t > Len(item_patterns) THEN << >>
    ELSE ScoredAboveZero(item_patterns[t][1],
                         ItemScore(item_patterns[t][2], context_lower,
                                       Len(item_patterns[t][2])))
           \o ItemScores(context_lower, t + 1)

\* [a-zA-Z][a-zA-Z\s]+? and [a-zA-Z][a-zA-Z\s]+
DescriptionName == Cat(Chars(AsciiLetters), LazyPlus(Chars(AsciiLetters \cup SpaceChars)))

TrailingName == Cat(Chars(AsciiLetters), Plus(Chars(AsciiLetters \cup SpaceChars)))

\* What follows the group of the first four description_patterns, and what
\* stands before the group of the fifth.
description_patterns(str) ==
    << Pattern(<< Chars({":"}), Blanks, RsPrefix, Literal(str) >>),
       Pattern(<< Blanks, Chars({"-"}), Blanks, RsPrefix, Literal(str) >>),
       Pattern(<< Plus(Chars(SpaceChars)), RsPrefix, Literal(str) >>),
       Pattern(<< Blanks, Chars({"₹"}), Blanks, Literal(str) >>),
       Pattern(<< RsPrefix, Literal(str), Plus(Chars(SpaceChars)) >>) >>

\* match.group(1) of description pattern p in the context, << >> without a
\* match: the group opens the first four patterns and closes the fifth.
DescriptionGroup(context, p, found) ==
    IF found = NoMatch THEN << >>
    ELSE IF p = 5 THEN Slice(context, found.group_end, found.end - 1)
    ELSE Slice(context, found.start, found.group_end - 1)

DescriptionFound(context, str, p) ==
    DescriptionGroup(context, p,
                     IF p = 5
                     THEN Search(description_patterns(str)[p], TrailingName, context, 1, TRUE)
                     ELSE Search(DescriptionName, description_patterns(str)[p], context, 1, TRUE))

\* re.sub(r'\s+', '_', item_desc.strip()) of the group stripped and in lower
\* case; the group has letters and blanks only, so re.sub(r'[^\w\s]', '', ...)
\* leaves it as it is.
item_desc(group) ==
    [i \in 1..Len(Collapsed(Strip(group))) |->
        IF Collapsed(Strip(group))[i] = " " THEN "_"
        ELSE LowerLetter(Collapsed(Strip(group))[i])]

IsItemDescription(desc) == desc # << >> /\ desc \notin exclude_words /\ Len(desc) > 2

\* The loop over description_patterns from pattern p on: the first description
\* that is kept, << >> when there is none.
RECURSIVE Description(_, _, _)
DescriptionOr(context, str, p, desc) ==
    IF IsItemDescription(desc) THEN desc ELSE Description(context, str, p + 1)

Description(context, str, p) ==
    IF p > Len(description_patterns(str)) THEN << >>
    ELSE DescriptionOr(context, str, p, item_desc(DescriptionFound(context, str, p)))

\* match.group(1).replace('-', '_').replace(' ', '_') of the first of the
\* medical_service_patterns from p on found in the context, << >> without one.
RECURSIVE MedicalService(_, _)
MedicalServiceOr(context_lower, p, found) ==
    IF found = NoMatch THEN MedicalService(context_lower, p + 1)
    ELSE DynamicType(Slice(context_lower, found.start, found.group_end - 1))

MedicalService(context_lower, p) ==
    IF p > Len(medical_service_patterns) THEN << >>
    ELSE MedicalServiceOr(context_lower, p,
                          Search(Cat(Wb, medical_service_patterns[p]), Wb, context_lower, 1, FALSE))

\* r'\b([a-zA-Z]{3,})\s*:?\s*Rs\.?\s*' + re.escape(amount_str), searched with
\* re.IGNORECASE: the word in lower case, << >> without a match.
WordFound(context, found) ==
    IF found = NoMatch THEN << >> ELSE Lower(Slice(context, found.start, found.group_end - 1))

word_before_amount(context, str) ==
    WordFound(context,
              Search(Cat(Wb, Rep(Chars(AsciiLetters), 3, Unbounded)),
                     Pattern(<< Blanks, Opt(Chars({":"})), Blanks, RsPrefix, Literal(str) >>),
                     context, 1, TRUE))

\* Lines 699-720: the word before the amount, then the type, then the label
\* of the size.
LastResort(amount, amount_type, word) ==
    IF word # << >> /\ word \notin exclude_generic THEN word
    ELSE IF amount_type # TypeOther THEN amount_type
    ELSE SizeLabel(amount)

\* Lines 671-697.
ServiceOr(amount, context, amount_type, service) ==
    IF service # << >> THEN service
    ELSE LastResort(amount, amount_type, word_before_amount(context, amount_str(amount)))

\* Lines 644-668.
DescriptionElse(amount, context, amount_type, desc) ==
    IF desc # << >> THEN desc
    ELSE ServiceOr(amount, context, amount_type, MedicalService(Lower(context), 1))

\* Lines 609-642: the item name of the highest score, the first of them.
NamedFromContext(amount, context, amount_type, item_scores) ==
    IF item_scores # << >> THEN BestType(item_scores).type
    ELSE DescriptionElse(amount, context, amount_type,
                         Description(context, amount_str(amount), 1))

\* _extract_item_name(amount, context, amount_type, source_context): the
\* dynamic service of the source, then the standard types and the known
\* services, then the search of the context.
extract_item_name(amount, context, classified) ==
    IF classified.dynamic_service # << >> THEN classified.dynamic_service
    ELSE IF classified.type \in standard_types \cup known_medical_services
    THEN classified.type
    ELSE NamedFromContext(amount, context, classified.type, ItemScores(Lower(context), 1))

\* f(value), the value computed once before f is applied to it.
Given(value, f(_)) == CHOOSE applied \in { f(v) : v \in { value } } : TRUE

\* What the loop of classify_amounts appends for one amount: the item and
\* the confidence of its classification.
ClassifiedItem(amount, context, classified, input_source) ==
    [item |-> AmountItem(extract_item_name(amount, context, classified), amount, input_source),
     confidence |-> classified.confidence]

\* classified_amounts and classification_confidences of classify_amounts.
ClassifiedEach(amounts, contexts, full_text, input_source) ==
    [i \in 1..Len(amounts) |->
        Given(classify_single_amount(amounts[i], contexts[i], full_text),
              LAMBDA classified : ClassifiedItem(amounts[i], contexts[i], classified, input_source))]

\* The response with the confidence of the first amount for all of them.
ClassifiedResponseFirst(each) ==
    ClassificationResponse([i \in 1..Len(each) |-> each[i].item], each[1].confidence)

\* overall_confidence = sum(classification_confidences) / len(...)
ClassifiedResponse(each) ==
    ClassificationResponse([i \in 1..Len(each) |-> each[i].item],
                           Sum([i \in 1..Len(each) |-> each[i].confidence]) \div Len(each))

\* text_processor.clean_text(original_text.lower())
cleaned_lower(lines) == clean_text([k \in 1..Len(lines) |-> Lower(lines[k])])

\* amount_contexts of _find_amount_contexts, in the order of the amounts.
find_amount_contexts(amounts, lines) ==
    [i \in 1..Len(amounts) |->
        Given(lines, LAMBDA searched : find_amount_context(amounts[i], searched))]

ClassifiedIn(amounts, contexts, full_text, input_source) ==
    Given(ClassifiedEach(amounts, contexts, full_text, input_source), ClassifiedResponse)

\* classify_amounts(amounts, original_text, currency_hint, input_source) when
\* nothing raises: lines is the original text, corrected the text that
\* correct_ocr_digits returned for it in _find_amount_contexts.
classify_amounts_in_text(amounts, lines, corrected, input_source) ==
    IF amounts = << >> THEN ClassificationResponse(<< >>, 0)
    ELSE Given(cleaned_lower(lines),
               LAMBDA full_text :
                  ClassifiedIn(amounts, find_amount_contexts(amounts, search_text(corrected)),
                               full_text, input_source))

(***************************************************************************)
(* The pipeline after extraction                                           *)
(*                                                                         *)
(* process_text continues with lines 44-85 once extraction has succeeded;  *)
(* process_image hands the extraction result and the extracted text to     *)
(* _continue_pipeline_from_ocr.  Each is given here as a function of the   *)
(* extraction result, the text, the threshold and what the text gives each *)
(* amount in classification; it yields the checks and stages it went       *)
(* through, the results of the stages and the response.                    *)
(***************************************************************************)
TailRun(checks, normalization_result, classification_result, result) ==
    [checks |-> checks, normalization_result |-> normalization_result,
     classification_result |-> classification_result, result |-> result]

\* process_text lines 81-85.
TextAssembled(ocr_result, normalization_result, classification_result, text, threshold) ==
    TailRun(<<"threshold", "normalize", "amounts", "classify", "assemble">>,
            normalization_result, classification_result,
            assemble_final_output(ocr_result, normalization_result, classification_result,
                                  text, threshold, FALSE))

\* process_text lines 60-76.
TextNormalized(ocr_result, normalization_result, text, threshold, outcomes) ==
    IF normalization_result.normalized_amounts = << >>
    THEN TailRun(<<"threshold", "normalize", "amounts">>, normalization_result,
                 ClassificationResponse(<< >>, 0),
                 nothing_normalized(ocr_result, normalization_result))
    ELSE TextAssembled(ocr_result, normalization_result,
                       classify_amounts(normalization_result.normalized_amounts, "text",
                                        outcomes, FALSE),
                       text, threshold)

\* process_text lines 44-58.
process_text_tail(ocr_result, text, threshold, outcomes) ==
    IF ocr_result.confidence < threshold
    THEN TailRun(<<"threshold">>, NormalizationResponse(<< >>, 0),
                 ClassificationResponse(<< >>, 0), extraction_low_confidence(ocr_result))
    ELSE TextNormalized(ocr_result,
                        normalize_amounts(ocr_result.raw_tokens, ocr_result.confidence, FALSE),
                        text, threshold, outcomes)

\* _continue_pipeline_from_ocr lines 182-189.
ContinueAssembled(ocr_result, normalization_result, classification_result, extracted_text, threshold) ==
    TailRun(<<"threshold", "normalize", "amounts", "classify", "assemble">>,
            normalization_result, classification_result,
            assemble_final_output(ocr_result, normalization_result, classification_result,
                                  extracted_text, threshold, FALSE))

\* _continue_pipeline_from_ocr lines 164-180.
ContinueNormalized(ocr_result, normalization_result, extracted_text, threshold, outcomes) ==
    IF normalization_result.normalized_amounts = << >>
    THEN TailRun(<<"threshold", "normalize", "amounts">>, normalization_result,
                 ClassificationResponse(<< >>, 0),
                 nothing_normalized(ocr_result, normalization_result))
    ELSE ContinueAssembled(ocr_result, normalization_result,
                           classify_amounts(normalization_result.normalized_amounts, "image",
                                            outcomes, FALSE),
                           extracted_text, threshold)

\* _continue_pipeline_from_ocr with no check of the confidence.
continue_without_threshold(ocr_result, extracted_text, threshold, outcomes) ==
    ContinueNormalized(ocr_result,
                       normalize_amounts(ocr_result.raw_tokens, ocr_result.confidence, FALSE),
                       extracted_text, threshold, outcomes)

\* _continue_pipeline_from_ocr lines 148-162.
continue_pipeline_from_ocr(ocr_result, extracted_text, threshold, outcomes) ==
    IF ocr_result.confidence < threshold
    THEN TailRun(<<"threshold">>, NormalizationResponse(<< >>, 0),
                 ClassificationResponse(<< >>, 0), extraction_low_confidence(ocr_result))
    ELSE ContinueNormalized(ocr_result,
                            normalize_amounts(ocr_result.raw_tokens, ocr_result.confidence,
                                              FALSE),
                            extracted_text, threshold, outcomes)

\* The successful extractions of the sample texts: as extract_from_text
\* returns them, and as extract_from_image does after combining the
\* confidence with that of the OCR engine.
TailInputs ==
    { [ocr_result |-> ExtractedFromText(t).response, text |-> t] : t \in AcceptedTexts }
    \cup { [ocr_result |-> CombinedResult(ExtractedFromText(t).response,
                                          Image(MIN_IMAGE_SIZE, TRUE, "ok", "text", c, t)),
            text |-> t] : t \in AcceptedTexts, c \in OcrConfidences }

(***************************************************************************)
(* One request through the pipeline                                        *)
(***************************************************************************)
VARIABLES
    pc,                     \* where the request is: idle, extract, check,
                            \* normalize, classify, assemble, done
    source,                 \* "text" (process_text) or "image" (process_image)
    processing_threshold,   \* self.processing_threshold
    image,                  \* image_data of process_image
    text,                   \* text of process_text; extracted_text of process_image
    ocr_result,
    normalization_result,
    classification_result,
    result,                 \* what the call ends with
    calls,                  \* the stages the pipeline has invoked, in order
    steps,                  \* the calls made inside the extraction stage
    faults,                 \* where a fault has been raised
    corrected_text          \* corrected_text of _find_amount_contexts, in lines

vars == << pc, source, processing_threshold, image, text, ocr_result,
           normalization_result, classification_result, result, calls, steps, faults,
           corrected_text >>

NoImage == Image(0, FALSE, "ok", "no_text", 0, NoText)

NoOcrResult == RawTokensResponse(<< >>, None, 0, "pending", NoReason)

\* AmountDetectionPipeline.__init__ and the module-level instance.
Init ==
    /\ pc = "idle"
    /\ source = "none"
    /\ processing_threshold \in ThresholdSettings
    /\ image = NoImage
    /\ text = NoText
    /\ ocr_result = NoOcrResult
    /\ normalization_result = NormalizationResponse(<< >>, 0)
    /\ classification_result = ClassificationResponse(<< >>, 0)
    /\ result = Pending
    /\ calls = << >>
    /\ steps = << >>
    /\ faults = {}
    /\ corrected_text = << >>

\* A caller awaits process_text(t).
ProcessText(t) ==
    /\ pc = "idle"
    /\ pc' = "extract"
    /\ source' = "text"
    /\ text' = t
    /\ UNCHANGED << processing_threshold, image, ocr_result, normalization_result,
                    classification_result, result, calls, steps, faults >>
    /\ UNCHANGED corrected_text

\* A caller awaits process_image(img).
ProcessImage(img) ==
    /\ pc = "idle"
    /\ pc' = "extract"
    /\ source' = "image"
    /\ image' = img
    /\ UNCHANGED << processing_threshold, text, ocr_result, normalization_result,
                    classification_result, result, calls, steps, faults >>
    /\ UNCHANGED corrected_text

\* Step 1 of process_text: await ocr_service.extract_from_text(text).
ExtractFromText(fault) ==
    /\ pc = "extract"
    /\ source = "text"
    /\ fault \in {"none"} \cup TextFaultPoints(text)
    /\ LET run == extract_from_text(text, fault)
       IN  /\ ocr_result' = run.response
           /\ steps' = run.steps
    /\ calls' = Append(calls, "extract")
    /\ faults' = IF fault = "none" THEN faults ELSE faults \cup {"extract"}
    /\ pc' = "check"
    /\ UNCHANGED << source, processing_threshold, image, text, normalization_result,
                    classification_result, result >>
    /\ UNCHANGED corrected_text

\* Step 1 of process_image: await ocr_service.extract_from_image(image_data).
ExtractFromImage(fault) ==
    /\ pc = "extract"
    /\ source = "image"
    /\ fault \in {"none"} \cup ImageFaultPoints(image)
    /\ LET run == extract_from_image(image, fault)
       IN  /\ ocr_result' = run.response
           /\ steps' = run.steps
           /\ faults' = faults
                \cup (IF fault = "none" THEN {} ELSE {"extract"})
                \cup (IF InSeq("_load_and_preprocess_image", run.steps) /\ image.load = "fault"
                      THEN {"load"} ELSE {})
                \cup (IF InSeq("_perform_ocr", run.steps) /\ image.ocr = "fault"
                      THEN {"ocr"} ELSE {})
    /\ calls' = Append(calls, "extract")
    /\ pc' = "check"
    /\ UNCHANGED << source, processing_threshold, image, text, normalization_result,
                    classification_result, result >>
    /\ UNCHANGED corrected_text

\* process_text lines 36-51; process_image lines 112-127 with
\* _continue_pipeline_from_ocr lines 148-155.  raised tells whether this code
\* of the pipeline itself raises, which the except clause of the entry point
\* catches.
CheckExtraction(raised) ==
    /\ pc = "check"
    /\ LET extracted_text ==
             IF source = "text" THEN text
             ELSE IF ocr_result.original_text.len > 0 THEN ocr_result.original_text
             ELSE reconstruct_text_from_tokens(ocr_result.raw_tokens)
       IN  IF raised
           THEN /\ result' = pipeline_except(source)
                /\ faults' = faults \cup {"pipeline"}
                /\ pc' = "done"
                /\ text' = text
           ELSE IF ocr_result.status # "success"
           THEN /\ result' = extraction_failed(ocr_result)
                /\ pc' = "done"
                /\ UNCHANGED << text, faults >>
           ELSE IF below_threshold(ocr_result.confidence, processing_threshold)
           THEN /\ result' = extraction_low_confidence(ocr_result)
                /\ pc' = "done"
                /\ text' = extracted_text
                /\ faults' = faults
           ELSE /\ pc' = "normalize"
                /\ text' = extracted_text
                /\ UNCHANGED << result, faults >>
    /\ UNCHANGED << source, processing_threshold, image, ocr_result, normalization_result,
                    classification_result, calls, steps >>
    /\ UNCHANGED corrected_text

\* Step 2 without the return of lines 60-67: classification follows whatever
\* normalization yields.
NormalizeWithoutReturn(raised) ==
    /\ pc = "normalize"
    /\ normalization_result' =
          normalize_amounts(ocr_result.raw_tokens, ocr_result.confidence, raised)
    /\ pc' = "classify"
    /\ calls' = Append(calls, "normalize")
    /\ faults' = IF raised THEN faults \cup {"normalize"} ELSE faults
    /\ UNCHANGED << source, processing_threshold, image, text, ocr_result,
                    classification_result, result, steps >>
    /\ UNCHANGED corrected_text

\* Step 2: await normalization_service.normalize_amounts(...), then the
\* return when no amount was normalized.
Normalize(raised) ==
    /\ pc = "normalize"
    /\ LET normalized == normalize_amounts(ocr_result.raw_tokens, ocr_result.confidence, raised)
       IN  /\ normalization_result' = normalized
           /\ IF normalized.normalized_amounts = << >>
              THEN /\ result' = nothing_normalized(ocr_result, normalized)
                   /\ pc' = "done"
              ELSE /\ pc' = "classify"
                   /\ result' = result
    /\ calls' = Append(calls, "normalize")
    /\ faults' = IF raised THEN faults \cup {"normalize"} ELSE faults
    /\ UNCHANGED << source, processing_threshold, image, text, ocr_result,
                    classification_result, steps >>
    /\ UNCHANGED corrected_text

\* Step 3: await classification_service.classify_amounts(...).
Classify(outcomes, raised) ==
    /\ pc = "classify"
    /\ classification_result' =
          classify_amounts(normalization_result.normalized_amounts, source, outcomes, raised)
    /\ calls' = Append(calls, "classify")
    /\ faults' = IF raised THEN faults \cup {"classify"} ELSE faults
    /\ pc' = "assemble"
    /\ UNCHANGED << source, processing_threshold, image, text, ocr_result,
                    normalization_result, result, steps >>
    /\ UNCHANGED corrected_text

\* Step 4: return await self._assemble_final_output(...).
Assemble(raised) ==
    /\ pc = "assemble"
    /\ result' = assemble_final_output(ocr_result, normalization_result,
                                       classification_result, text,
                                       processing_threshold, raised)
    /\ calls' = Append(calls, "assemble")
    /\ faults' = IF raised THEN faults \cup {"assemble"} ELSE faults
    /\ pc' = "done"
    /\ UNCHANGED << source, processing_threshold, image, text, ocr_result,
                    normalization_result, classification_result, steps >>
    /\ UNCHANGED corrected_text

Next ==
    \/ \E t \in TextInputs : ProcessText(t)
    \/ \E img \in ImageInputs : ProcessImage(img)
    \/ \E fault \in {"none", "validate_text_input", "clean_text", "extract_numeric_tokens",
                     "extract_amounts_from_token", "detect_currency"} :
          ExtractFromText(fault)
    \/ \E fault \in {"none", "validate_image_data", "correct_ocr_digits",
                     "validate_text_input", "clean_text", "extract_numeric_tokens",
                     "extract_amounts_from_token", "detect_currency"} :
          ExtractFromImage(fault)
    \/ \E raised \in BOOLEAN : CheckExtraction(raised)
    \/ \E raised \in BOOLEAN : Normalize(raised)
    \/ \E raised \in BOOLEAN :
          \E outcomes \in [1..Len(normalization_result.normalized_amounts) -> ClassOutcomes] :
             /\ raised => \A i \in DOMAIN outcomes : outcomes[i].confidence = 9 * Tenth
             /\ Classify(outcomes, raised)
    \/ \E raised \in BOOLEAN : Assemble(raised)

Spec == Init /\ [][Next]_vars

(***************************************************************************)
(* Properties of a request                                                 *)
(***************************************************************************)
Statuses == {"ok", "low_confidence", "no_amounts_found", "error"}

StageOrder == <<"extract", "normalize", "classify", "assemble">>

\* 0.01 <= value <= 1,000,000 for a value in hundredths.
WithinAmountBounds(value) == value >= 1 /\ value <= 1000000 * 100

\* C1: whatever the text, the image bytes and the faults raised inside the
\* stages, process_text and process_image end by returning a response, never
\* by raising, and the status returned is one of ok, low_confidence,
\* no_amounts_found and error.
C1_ReturnsAStatus ==
    pc = "done" => ~result.raised /\ result.response.status \in Statuses

C1_Witness ==
    pc = "done" /\ "pipeline" \in faults /\ ~result.raised
      /\ result.response.status = "error"

\* C2: in every response returned, whatever its status, every item of amounts
\* has a value between MIN_AMOUNT_VALUE (0.01) and MAX_AMOUNT_VALUE
\* (1,000,000).
C2_AmountsWithinBounds ==
    pc = "done" =>
        \A i \in 1..Len(result.response.amounts) :
            WithinAmountBounds(result.response.amounts[i].value)

C2_Witness ==
    /\ pc = "done"
    /\ InSeq(<<"1", ",", "0", "0", "0", ",", "0", "0", "1">>, text.tokens)
    /\ result.response.status = "ok"
    /\ result.response.amounts # << >>

\* C3: the stages invoked within a request are always a prefix of extract,
\* normalize, classify, assemble (so each runs at most once and extraction is
\* never invoked again), and a stage has run only when the stages before it
\* ran without a terminal status: normalization only after a successful
\* extraction whose confidence is not below the threshold, classification only
\* after a normalization that yielded amounts.
C3_StagesInOrder ==
    /\ \E n \in 0..Len(StageOrder) : calls = SubSeq(StageOrder, 1, n)
    /\ Len(calls) >= 2 =>
          /\ ocr_result.status = "success"
          /\ ~(ocr_result.confidence < processing_threshold)
    /\ Len(calls) >= 3 => normalization_result.normalized_amounts # << >>

C3_Witness == pc = "done" /\ calls = StageOrder /\ result.response.status = "ok"

\* C4: when extraction returns a status other than success (and the
\* pipeline's own statements raise nothing), the response has that status,
\* error or no_amounts_found, with the reason, the raw tokens and the
\* confidence of the extraction, no amounts, and neither normalization nor
\* classification has been invoked.
C4_FailedExtractionForwarded ==
    (pc = "done" /\ ocr_result.status # "success" /\ "pipeline" \notin faults) =>
        /\ result.response.status = ocr_result.status
        /\ result.response.status \in {"error", "no_amounts_found"}
        /\ result.response.reason = ocr_result.reason
        /\ result.response.raw_tokens = ocr_result.raw_tokens
        /\ result.response.confidence = ocr_result.confidence
        /\ result.response.amounts = << >>
        /\ calls = <<"extract">>

C4_Witness ==
    /\ pc = "done"
    /\ faults = {}
    /\ ocr_result.status = "no_amounts_found"
    /\ result.response.status = "no_amounts_found"
    /\ result.response.reason = <<"No valid amounts found in numeric tokens">>

\* C5: when extraction succeeds with a confidence strictly below the
\* processing threshold (and the pipeline's own statements raise nothing), the
\* response is low_confidence with the raw tokens and the confidence of the
\* extraction and no amounts, and normalization and classification are not
\* invoked; with a confidence equal to the threshold normalization is invoked.
C5_LowConfidenceGate ==
    (pc = "done" /\ ocr_result.status = "success" /\ "pipeline" \notin faults) =>
        /\ ocr_result.confidence < processing_threshold =>
              /\ result.response.status = "low_confidence"
              /\ result.response.raw_tokens = ocr_result.raw_tokens
              /\ result.response.confidence = ocr_result.confidence
              /\ result.response.amounts = << >>
              /\ calls = <<"extract">>
        /\ ocr_result.confidence = processing_threshold => InSeq("normalize", calls)

C5_Witness ==
    /\ pc = "done"
    /\ ocr_result.status = "success"
    /\ ocr_result.confidence < processing_threshold
    /\ result.response.status = "low_confidence"
    /\ result.response.raw_tokens # << >>

\* C6: the response is no_amounts_found with no amounts whenever
\* normalization returned no amount, classification then not being invoked,
\* and whenever assembly (raising nothing) finds no classified amount within
\* the bounds.
C6_NoAmountsFound ==
    /\ (pc = "done" /\ Len(calls) >= 2
          /\ normalization_result.normalized_amounts = << >>) =>
            /\ result.response.status = "no_amounts_found"
            /\ result.response.amounts = << >>
            /\ calls = <<"extract", "normalize">>
    /\ (pc = "done" /\ Len(calls) = 4 /\ "assemble" \notin faults
          /\ \A i \in 1..Len(classification_result.amounts) :
                ~WithinAmountBounds(classification_result.amounts[i].value)) =>
            /\ result.response.status = "no_amounts_found"
            /\ result.response.amounts = << >>

C6_Witness ==
    /\ pc = "done"
    /\ calls = <<"extract", "normalize">>
    /\ normalization_result.normalized_amounts = << >>
    /\ result.response.status = "no_amounts_found"

\* C7: when assembly (raising nothing) is reached with a classified amount
\* within the bounds, the confidence of the response is 0.4 * extraction
\* confidence + 0.4 * normalization confidence + 0.2 * classification
\* confidence, the status is ok exactly when that is at least the processing
\* threshold and low_confidence otherwise, and the response has amounts and
\* the currency of the text or else the hint of the extraction.
C7_WeightedConfidence ==
    (pc = "done" /\ Len(calls) = 4 /\ "assemble" \notin faults
       /\ \E i \in 1..Len(classification_result.amounts) :
             WithinAmountBounds(classification_result.amounts[i].value)) =>
        /\ 10 * result.response.confidence =
              4 * ocr_result.confidence
                + 4 * normalization_result.normalization_confidence
                + 2 * classification_result.confidence
        /\ result.response.status \in {"ok", "low_confidence"}
        /\ result.response.status = "ok" <=>
              result.response.confidence >= processing_threshold
        /\ result.response.amounts # << >>
        /\ result.response.currency =
              IF text.detected.original # "UNKNOWN" THEN text.detected.original
              ELSE ocr_result.currency_hint

C7_Witness ==
    /\ pc = "done"
    /\ Len(calls) = 4
    /\ result.response.status = "low_confidence"
    /\ result.response.amounts # << >>
    /\ result.response.currency # None

\* C8: when no fault is raised and the confidence of a stage that ran is
\* below the threshold configured for it (MIN_OCR_CONFIDENCE and the
\* processing threshold for extraction, MIN_AMOUNT_CONFIDENCE for
\* normalization, CLASSIFICATION_CONFIDENCE_THRESHOLD for classification), the
\* request ends as low_confidence.
C8_StageThresholdsEnforced ==
    (/\ pc = "done"
     /\ faults = {}
     /\ ocr_result.status = "success"
     /\ \/ ocr_result.confidence < MIN_OCR_CONFIDENCE
        \/ ocr_result.confidence < processing_threshold
        \/ /\ Len(calls) >= 2
           /\ normalization_result.normalization_confidence < MIN_AMOUNT_CONFIDENCE
        \/ /\ Len(calls) >= 3
           /\ classification_result.confidence < CLASSIFICATION_CONFIDENCE_THRESHOLD)
      => result.response.status = "low_confidence"

\* C9: a fault that reaches the boundary of a stage (extraction,
\* normalization, classification, assembly) or is raised by the pipeline's
\* own statements ends the request with the status error and a reason that
\* carries the message of the fault, never with no_amounts_found,
\* low_confidence or ok.
C9_FaultsEndAsErrors ==
    (/\ pc = "done"
     /\ faults \cap {"extract", "normalize", "classify", "assemble", "pipeline"} # {}) =>
        /\ result.response.status = "error"
        /\ InSeq(FaultMessage, result.response.reason)

\* C10: for a text that validation rejects (the empty string, whitespace only,
\* more than 10,000 characters) and no fault, process_text returns the status
\* error with a reason (that the text cannot be empty, for the empty string),
\* the confidence 0.0, no raw tokens and no amounts, and nothing but the
\* validation has run: no tokenization, no normalization, no classification.
C10_RejectedTextIsAnError ==
    (/\ pc = "done"
     /\ source = "text"
     /\ faults = {}
     /\ text.is_str
     /\ text.len = 0 \/ text.stripped_len = 0 \/ text.len > 10000) =>
        /\ result.response.status = "error"
        /\ result.response.reason # NoReason
        /\ text.len = 0 => result.response.reason = <<"Text input cannot be empty">>
        /\ result.response.confidence = 0
        /\ result.response.raw_tokens = << >>
        /\ result.response.amounts = << >>
        /\ steps = <<"validate_text_input">>
        /\ calls = <<"extract">>

C10_Witness ==
    /\ pc = "done"
    /\ source = "text"
    /\ faults = {}
    /\ text.is_str
    /\ text.len = 0
    /\ result.response.status = "error"
    /\ result.response.reason = <<"Text input cannot be empty">>

\* The values of Currency but UNKNOWN.
ConcreteCurrencies == {"INR", "USD", "EUR", "GBP"}

\* C12: the currency of an assembled result is the currency detected in the
\* original text when that is INR, USD, EUR or GBP, whatever the hint of the
\* extraction; it is the hint only when the detection gives UNKNOWN; and it is
\* one of INR, USD, EUR, GBP or None, never UNKNOWN.
C12_RedetectedCurrency ==
    (/\ pc = "done"
     /\ Len(calls) = 4
     /\ result.response.status \in {"ok", "low_confidence"}) =>
        /\ text.detected.original \in ConcreteCurrencies =>
              result.response.currency = text.detected.original
        /\ text.detected.original = "UNKNOWN" =>
              result.response.currency = ocr_result.currency_hint
        /\ result.response.currency \in ConcreteCurrencies \cup {None}

C12_Witness ==
    /\ pc = "done"
    /\ Len(calls) = 4
    /\ result.response.status = "ok"
    /\ ocr_result.currency_hint = "INR"
    /\ text.detected.original = "USD"
    /\ result.response.currency = "USD"

(***************************************************************************)
(* normalize_amounts on its own                                            *)
(*                                                                         *)
(* A caller hands normalization_service.normalize_amounts a list of        *)
(* strings and an OCR confidence; ocr_result holds the two, and            *)
(* normalization_result what the call returns.                             *)
(***************************************************************************)
\* The length of the batches of raw tokens.
MaxBatch == 2

\* Raw tokens: "100", "100.0", "0.01", "1e3", "12,345", "2,345", "lO", "nan",
\* "abc".
RawTokenSamples ==
    { <<"1", "0", "0">>,
      <<"1", "0", "0", ".", "0">>,
      <<"0", ".", "0", "1">>,
      <<"1", "e", "3">>,
      <<"1", "2", ",", "3", "4", "5">>,
      <<"2", ",", "3", "4", "5">>,
      <<"l", "O">>,
      <<"n", "a", "n">>,
      <<"a", "b", "c">> }

\* ocr_confidence: 0.0, 0.1, 0.9 and the default 1.0.
NormalizerConfidences == { 0, Tenth, 9 * Tenth, One }

NormalizeInit ==
    /\ pc = "normalize"
    /\ source = "text"
    /\ processing_threshold = PROCESSING_CONFIDENCE_THRESHOLD
    /\ image = NoImage
    /\ text = NoText
    /\ \E raw_tokens \in SeqsUpTo(RawTokenSamples, MaxBatch) :
          \E ocr_confidence \in NormalizerConfidences :
             ocr_result = RawTokensResponse(raw_tokens, None, ocr_confidence,
                                            "success", NoReason)
    /\ normalization_result = NormalizationResponse(<< >>, 0)
    /\ classification_result = ClassificationResponse(<< >>, 0)
    /\ result = Pending
    /\ calls = << >>
    /\ steps = << >>
    /\ faults = {}
    /\ corrected_text = << >>

\* await normalization_service.normalize_amounts(raw_tokens, ocr_confidence)
NormalizeAmounts ==
    /\ pc = "normalize"
    /\ normalization_result' =
          normalize_amounts(ocr_result.raw_tokens, ocr_result.confidence, FALSE)
    /\ pc' = "normalized"
    /\ calls' = Append(calls, "normalize")
    /\ UNCHANGED << source, processing_threshold, image, text, ocr_result,
                    classification_result, result, steps, faults >>
    /\ UNCHANGED corrected_text

NormalizeNext == NormalizeAmounts

NormalizeSpec == NormalizeInit /\ [][NormalizeNext]_vars

\* A string float() accepts whose value lies in 0.01 .. 1,000,000.
ValidNumeric(amount) ==
    /\ amount \notin {ValueError, NaN, Inf}
    /\ WithinAmountBounds(amount)

HasNoDigit(token) == \A i \in 1..Len(token) : ~IsDigit(token[i])

\* The amounts of each token normalized on its own, joined in token order.
RECURSIVE AmountsOfEach(_)
AmountsOfEach(raw_tokens) ==
    IF raw_tokens = << >> THEN << >>
    ELSE normalize_amounts(<< Head(raw_tokens) >>, One, FALSE).normalized_amounts
            \o AmountsOfEach(Tail(raw_tokens))

\* The digits of a token with its commas removed, as a number.
WithoutCommas(token) == NumeralValue(SelectSeq(token, IsDigit), << >>)

\* d{1,3}(,ddd)+
IsCommaGrouped(token) ==
    /\ Min(3, DigitRun(token, 1)) = DigitRun(token, 1)
    /\ DigitRun(token, 1) > 0
    /\ CommaGroups(token, DigitRun(token, 1) + 1) > 0
    /\ DigitRun(token, 1) + 4 * CommaGroups(token, DigitRun(token, 1) + 1) = Len(token)

\* C15 as stated: for a single valid numeric string with 0.01 <= float(s) <=
\* 1,000,000 and any ocr_confidence, normalize returns [float(s)] with a
\* normalization confidence of at least 0.9.
C15_AtLeastPointNine ==
    (/\ pc = "normalized"
     /\ Len(ocr_result.raw_tokens) = 1
     /\ ValidNumeric(ParseFloat(ocr_result.raw_tokens[1]))) =>
        /\ normalization_result.normalized_amounts = << ParseFloat(ocr_result.raw_tokens[1]) >>
        /\ normalization_result.normalization_confidence >= 9 * Tenth

\* C15: for a single valid numeric string with 0.01 <= float(s) <= 1,000,000,
\* normalize returns [float(s)] with the confidence (0.9 + ocr_confidence) / 2,
\* which is at least 0.9 exactly when ocr_confidence is.
C15_DirectParse ==
    (/\ pc = "normalized"
     /\ Len(ocr_result.raw_tokens) = 1
     /\ ValidNumeric(ParseFloat(ocr_result.raw_tokens[1]))) =>
        /\ normalization_result.normalized_amounts = << ParseFloat(ocr_result.raw_tokens[1]) >>
        /\ normalization_result.normalization_confidence
              = (9 * Tenth + ocr_result.confidence) \div 2
        /\ normalization_result.normalization_confidence >= 9 * Tenth
              <=> ocr_result.confidence >= 9 * Tenth

C15_Witness ==
    /\ pc = "normalized"
    /\ ocr_result.raw_tokens = << <<"0", ".", "0", "1">> >>
    /\ ocr_result.confidence = One
    /\ normalization_result.normalized_amounts = << 1 >>
    /\ normalization_result.normalization_confidence = 95 * (One \div 100)

\* C16: a batch in which no token contains a digit character normalizes to
\* no amount with the confidence 0.0.
C16_NoDigitsNoAmounts ==
    (/\ pc = "normalized"
     /\ \A i \in 1..Len(ocr_result.raw_tokens) : HasNoDigit(ocr_result.raw_tokens[i])) =>
        /\ normalization_result.normalized_amounts = << >>
        /\ normalization_result.normalization_confidence = 0

\* C17: each token contributes at most one amount, the amounts of a batch are
\* the amounts its tokens yield on their own, joined in token order, and a
\* token that yields nothing leaves the amounts of the others as they are.
C17_TokenWise ==
    pc = "normalized" =>
        /\ normalization_result.normalized_amounts = AmountsOfEach(ocr_result.raw_tokens)
        /\ \A i \in 1..Len(ocr_result.raw_tokens) :
              Len(AmountsOfEach(<< ocr_result.raw_tokens[i] >>)) <= 1
        /\ Len(normalization_result.normalized_amounts) <= Len(ocr_result.raw_tokens)

C17_Witness ==
    /\ pc = "normalized"
    /\ ocr_result.raw_tokens = << <<"a", "b", "c">>, <<"1", "0", "0">> >>
    /\ normalization_result.normalized_amounts = << 100 * Hundred >>

\* C18: the amounts normalize returns hold no value twice.
C18_NoDuplicateAmounts ==
    pc = "normalized" =>
        \A i, j \in 1..Len(normalization_result.normalized_amounts) :
           (/\ i < j
            /\ normalization_result.normalized_amounts[i] # NaN) =>
               normalization_result.normalized_amounts[i]
                  # normalization_result.normalized_amounts[j]

\* C19: a single token of comma-separated digit groups normalizes to the
\* number with the commas removed.
C19_CommasRemoved ==
    (/\ pc = "normalized"
     /\ Len(ocr_result.raw_tokens) = 1
     /\ IsCommaGrouped(ocr_result.raw_tokens[1])) =>
        normalization_result.normalized_amounts
           = << WithoutCommas(ocr_result.raw_tokens[1]) >>

\* The confidences of the tokens that produce an amount, each token
\* normalized on its own, in token order.
RECURSIVE ScoresOfEach(_)
ScoresOfEach(raw_tokens) ==
    IF raw_tokens = << >> THEN << >>
    ELSE NormalizeTokens(<< Head(raw_tokens) >>).scores \o ScoresOfEach(Tail(raw_tokens))

\* The mean of the scores averaged with the OCR confidence, 0.0 for no score.
MeanWithOcr(scores, ocr_confidence) ==
    IF scores = << >> THEN 0
    ELSE (Sum(scores) \div Len(scores) + ocr_confidence) \div 2

\* C22: the normalization confidence is the mean of the confidences of the
\* tokens that produced an amount, averaged with ocr_confidence; it is 0.0
\* when no token produced an amount, and the empty list returns ([], 0.0).
C22_MeanAveragedWithOcr ==
    pc = "normalized" =>
        /\ normalization_result.normalization_confidence
              = MeanWithOcr(ScoresOfEach(ocr_result.raw_tokens), ocr_result.confidence)
        /\ normalization_result.normalized_amounts = << >>
              => normalization_result.normalization_confidence = 0
        /\ ocr_result.raw_tokens = << >>
              => normalization_result = NormalizationResponse(<< >>, 0)

\* ["abc", "lO"] with ocr_confidence 0.9: "abc" gives nothing, "lO" gives
\* 10.0 after two corrections (0.5), and the confidence is 0.7.
C22_Witness ==
    /\ pc = "normalized"
    /\ ocr_result.raw_tokens = << <<"a", "b", "c">>, <<"l", "O">> >>
    /\ ocr_result.confidence = 9 * Tenth
    /\ normalization_result.normalized_amounts = << 10 * Hundred >>
    /\ normalization_result.normalization_confidence = 7 * Tenth

(***************************************************************************)
(* The two tails run on the same extraction result                         *)
(***************************************************************************)
TailInit ==
    /\ pc = "check"
    /\ source = "none"
    /\ processing_threshold \in ThresholdSettings
    /\ image = NoImage
    /\ \E input \in TailInputs :
          /\ input.ocr_result.status = "success"
          /\ ocr_result = input.ocr_result
          /\ text = input.text
    /\ normalization_result = NormalizationResponse(<< >>, 0)
    /\ classification_result = ClassificationResponse(<< >>, 0)
    /\ result = Pending
    /\ calls = << >>
    /\ steps = << >>
    /\ faults = {}
    /\ corrected_text = << >>

\* The end of a tail: its stages' results and its response are kept.
TailDone(path, run) ==
    /\ pc = "check"
    /\ source' = path
    /\ normalization_result' = run.normalization_result
    /\ classification_result' = run.classification_result
    /\ result' = run.result
    /\ calls' = run.checks
    /\ pc' = "done"
    /\ UNCHANGED << processing_threshold, image, text, ocr_result, steps, faults >>
    /\ UNCHANGED corrected_text

\* The amounts normalization yields for the extraction result at hand.
TailAmounts ==
    normalize_amounts(ocr_result.raw_tokens, ocr_result.confidence, FALSE).normalized_amounts

\* process_text from line 44 on.
TextTail(outcomes) ==
    TailDone("text", process_text_tail(ocr_result, text, processing_threshold, outcomes))

\* return await self._continue_pipeline_from_ocr(ocr_result, extracted_text)
ImageTail(outcomes) ==
    TailDone("image", continue_pipeline_from_ocr(ocr_result, text, processing_threshold,
                                                  outcomes))

TailNext ==
    \/ \E outcomes \in [1..Len(TailAmounts) -> ClassOutcomes] : TextTail(outcomes)
    \/ \E outcomes \in [1..Len(TailAmounts) -> ClassOutcomes] : ImageTail(outcomes)

TailSpec == TailInit /\ [][TailNext]_vars

\* What classification gave each of up to n amounts, read back from its
\* result; an amount it did not reach is given the first outcome.
OutcomesOf(classified, n) ==
    [i \in 1..n |->
       IF i <= Len(classified.amounts)
       THEN CHOOSE outcome \in ClassOutcomes : outcome.item_name = classified.amounts[i].type
       ELSE CHOOSE outcome \in ClassOutcomes : TRUE]

\* The same status, confidence, currency, raw tokens and amount types and
\* values.
SameOutcome(a, b) ==
    /\ a.status = b.status
    /\ a.confidence = b.confidence
    /\ a.currency = b.currency
    /\ a.raw_tokens = b.raw_tokens
    /\ Len(a.amounts) = Len(b.amounts)
    /\ \A i \in 1..Len(a.amounts) :
          /\ a.amounts[i].type = b.amounts[i].type
          /\ a.amounts[i].value = b.amounts[i].value

SameRun(run) ==
    /\ run.checks = calls
    /\ SameOutcome(run.result.response, result.response)

\* C11: for the same extraction result, text and classification of the
\* amounts, _continue_pipeline_from_ocr goes through the same checks in the
\* same order as process_text does from line 44 on, and returns the same
\* status, confidence, currency, raw tokens and amount types and values.
C11_SameTail ==
    /\ (pc = "done" /\ source = "image") =>
          SameRun(process_text_tail(ocr_result, text, processing_threshold,
                                    OutcomesOf(classification_result,
                                               Len(ocr_result.raw_tokens))))
    /\ (pc = "done" /\ source = "text") =>
          SameRun(continue_pipeline_from_ocr(ocr_result, text, processing_threshold,
                                             OutcomesOf(classification_result,
                                               Len(ocr_result.raw_tokens))))

C11_Witness ==
    /\ pc = "done"
    /\ source = "image"
    /\ calls = <<"threshold", "normalize", "amounts", "classify", "assemble">>
    /\ result.response.status = "ok"
    /\ Len(result.response.amounts) = 2
    /\ result.response.amounts[1].source = "image"
    /\ result.response.currency = "USD"

(***************************************************************************)
(* correct_ocr_digits, run on a text and then on its own output            *)
(***************************************************************************)
\* The longest text has MaxWords words.
MaxWords == 2

\* Words of bills as they are typed or read by the OCR engine.
CorrectorWords ==
    { <<"A", "m", "o", "u", "n", "t">>,
      <<"D", "u", "e">>,
      <<"T", "o", "t", "a", "l">>,
      <<"T", "0", "t", "a", "l">>,
      <<"p", "a", "i", "d", "O">>,
      <<"l", "5", "0">>,
      <<"R", "s", ".", "1", "5", "0", "@">>,
      <<"R", "s", ".", "1", "¢", "0">> }

\* " ".join(words)
RECURSIVE JoinWords(_)
JoinWords(words) ==
    IF words = << >> THEN << >>
    ELSE IF Len(words) = 1 THEN words[1]
    ELSE words[1] \o <<" ">> \o JoinWords(Tail(words))

CorrectorTexts == { JoinWords(words) : words \in SeqsUpTo(CorrectorWords, MaxWords) }

\* correct_ocr_digits(text) is entered: corrections = [], corrected = text.
\* steps holds the turns of its loops taken so far, calls the finished runs.
CorrectorInit ==
    /\ pc = "correct"
    /\ source = "text"
    /\ processing_threshold = PROCESSING_CONFIDENCE_THRESHOLD
    /\ image = NoImage
    /\ text \in CorrectorTexts
    /\ ocr_result = RawTokensResponse(<< >>, None, 0, "success", NoReason)
    /\ normalization_result = NormalizationResponse(<< >>, 0)
    /\ classification_result = ClassificationResponse(<< >>, 0)
    /\ result = Corrected(text, << >>)
    /\ calls = << >>
    /\ steps = << >>
    /\ faults = {}
    /\ corrected_text = << >>

\* One turn of a loop of correct_ocr_digits.
Turned(name, next) ==
    /\ pc = "correct"
    /\ result' = next
    /\ steps' = Append(steps, name)
    /\ UNCHANGED << pc, source, processing_threshold, image, text, ocr_result,
                    normalization_result, classification_result, calls, faults >>
    /\ UNCHANGED corrected_text

\* for pattern, replacement in currency_patterns
CurrencyTurn ==
    /\ Len(steps) < Len(currency_patterns)
    /\ Turned("currency", CurrencyStep(result, currency_patterns[Len(steps) + 1]))

\* for wrong_char, correct_char in self.digit_correction_map.items()
DigitTurn ==
    /\ Len(steps) >= Len(currency_patterns)
    /\ Len(steps) < Len(currency_patterns) + Len(OCR_DIGIT_CORRECTIONS)
    /\ Turned("digit",
              DigitStep(result, OCR_DIGIT_CORRECTIONS[Len(steps) + 1 - Len(currency_patterns)]))

\* for pattern, replacement in word_corrections.items()
WordTurn ==
    /\ Len(steps) >= Len(currency_patterns) + Len(OCR_DIGIT_CORRECTIONS)
    /\ Len(steps) < Len(currency_patterns) + Len(OCR_DIGIT_CORRECTIONS) + Len(word_corrections)
    /\ Turned("word",
              WordStep(result, word_corrections[Len(steps) + 1 - Len(currency_patterns)
                                                - Len(OCR_DIGIT_CORRECTIONS)]))

\* return corrected, corrections
CorrectorReturn ==
    /\ pc = "correct"
    /\ Len(steps) = Len(currency_patterns) + Len(OCR_DIGIT_CORRECTIONS) + Len(word_corrections)
    /\ pc' = "returned"
    /\ calls' = Append(calls, "correct_ocr_digits")
    /\ UNCHANGED << source, processing_threshold, image, text, ocr_result,
                    normalization_result, classification_result, result, steps, faults >>
    /\ UNCHANGED corrected_text

\* correct_ocr_digits is called on the text it has just returned.
CorrectAgain ==
    /\ pc = "returned"
    /\ Len(calls) = 1
    /\ pc' = "correct"
    /\ text' = result.text
    /\ result' = Corrected(result.text, << >>)
    /\ steps' = << >>
    /\ UNCHANGED << source, processing_threshold, image, ocr_result,
                    normalization_result, classification_result, calls, faults >>
    /\ UNCHANGED corrected_text

CorrectorNext ==
    \/ CurrencyTurn
    \/ DigitTurn
    \/ WordTurn
    \/ CorrectorReturn
    \/ CorrectAgain

CorrectorSpec == CorrectorInit /\ [][CorrectorNext]_vars

\* C20: when correct_ocr_digits has run on its own output, it returns that
\* text unchanged and an empty list of corrections.
C20_SecondRunCorrectsNothing ==
    (pc = "returned" /\ Len(calls) = 2) =>
        /\ result.text = text
        /\ result.corrections = << >>

(***************************************************************************)
(* process_text on a bill, with the classification of the service          *)
(***************************************************************************)
\* A caller awaits process_text(text), text being the lines of a bill.
BillInit ==
    /\ pc = "extract"
    /\ source = "text"
    /\ processing_threshold = PROCESSING_CONFIDENCE_THRESHOLD
    /\ image = NoImage
    /\ text \in BillTexts
    /\ ocr_result = NoOcrResult
    /\ normalization_result = NormalizationResponse(<< >>, 0)
    /\ classification_result = ClassificationResponse(<< >>, 0)
    /\ result = Pending
    /\ calls = << >>
    /\ steps = << >>
    /\ faults = {}
    /\ corrected_text = << >>

\* Lines 34-51 of process_text, the extraction given.
BillExtracted(extracted) ==
    /\ ocr_result' = extracted
    /\ IF extracted.status # "success"
       THEN result' = extraction_failed(extracted) /\ pc' = "done"
       ELSE IF below_threshold(extracted.confidence, processing_threshold)
       THEN result' = extraction_low_confidence(extracted) /\ pc' = "done"
       ELSE result' = result /\ pc' = "normalize"

\* Step 1: await ocr_service.extract_from_text(text), and the two checks.
BillExtract ==
    /\ pc = "extract"
    /\ BillExtracted(ExtractedFromText(BillText(text)).response)
    /\ calls' = Append(calls, "extract")
    /\ UNCHANGED << source, processing_threshold, image, text, normalization_result,
                    classification_result, steps, faults, corrected_text >>

\* Lines 55-67 of process_text, the normalization given.
BillNormalized(normalized) ==
    /\ normalization_result' = normalized
    /\ IF normalized.normalized_amounts = << >>
       THEN result' = nothing_normalized(ocr_result, normalized) /\ pc' = "done"
       ELSE result' = result /\ pc' = "classify"

\* Step 2: await normalization_service.normalize_amounts(...)
BillNormalize ==
    /\ pc = "normalize"
    /\ BillNormalized(normalize_amounts(ocr_result.raw_tokens, ocr_result.confidence, FALSE))
    /\ calls' = Append(calls, "normalize")
    /\ UNCHANGED << source, processing_threshold, image, text, ocr_result,
                    classification_result, steps, faults, corrected_text >>

\* Step 3 begins: classify_amounts calls _find_amount_contexts, which calls
\* correct_ocr_digits(text): corrected = text.
BillClassify ==
    /\ pc = "classify"
    /\ pc' = "correct"
    /\ corrected_text' = text
    /\ steps' = << >>
    /\ calls' = Append(calls, "classify")
    /\ UNCHANGED << source, processing_threshold, image, text, ocr_result,
                    normalization_result, classification_result, result, faults >>

\* One turn of a loop of correct_ocr_digits over the text: no pattern of the
\* corrector matches a newline, so the turn corrects every line.
BillTurned(name, step(_, _), entry) ==
    /\ pc = "correct"
    /\ corrected_text' =
          [k \in 1..Len(corrected_text) |-> step(Corrected(corrected_text[k], << >>), entry).text]
    /\ steps' = Append(steps, name)
    /\ UNCHANGED << pc, source, processing_threshold, image, text, ocr_result,
                    normalization_result, classification_result, result, calls, faults >>

\* for pattern, replacement in currency_patterns
BillCurrencyTurn ==
    /\ Len(steps) < Len(currency_patterns)
    /\ BillTurned("currency", CurrencyStep, currency_patterns[Len(steps) + 1])

\* for wrong_char, correct_char in self.digit_correction_map.items()
BillDigitTurn ==
    /\ Len(steps) >= Len(currency_patterns)
    /\ Len(steps) < Len(currency_patterns) + Len(OCR_DIGIT_CORRECTIONS)
    /\ BillTurned("digit", DigitStep,
                  OCR_DIGIT_CORRECTIONS[Len(steps) + 1 - Len(currency_patterns)])

\* for pattern, replacement in word_corrections.items()
BillWordTurn ==
    /\ Len(steps) >= Len(currency_patterns) + Len(OCR_DIGIT_CORRECTIONS)
    /\ Len(steps) < Len(currency_patterns) + Len(OCR_DIGIT_CORRECTIONS) + Len(word_corrections)
    /\ BillTurned("word", WordStep,
                  word_corrections[Len(steps) + 1 - Len(currency_patterns)
                                   - Len(OCR_DIGIT_CORRECTIONS)])

\* correct_ocr_digits has returned: the contexts are found, the amounts
\* classified and named, and classify_amounts returns.
BillClassified ==
    /\ pc = "correct"
    /\ Len(steps) = Len(currency_patterns) + Len(OCR_DIGIT_CORRECTIONS) + Len(word_corrections)
    /\ classification_result' =
          classify_amounts_in_text(normalization_result.normalized_amounts, text,
                                   corrected_text, "text")
    /\ pc' = "assemble"
    /\ UNCHANGED << source, processing_threshold, image, text, ocr_result,
                    normalization_result, result, calls, steps, faults, corrected_text >>

\* Step 4: await self._assemble_final_output(...)
BillAssemble ==
    /\ pc = "assemble"
    /\ result' = assemble_final_output(ocr_result, normalization_result,
                                       classification_result, BillText(text),
                                       processing_threshold, FALSE)
    /\ calls' = Append(calls, "assemble")
    /\ pc' = "done"
    /\ UNCHANGED << source, processing_threshold, image, text, ocr_result,
                    normalization_result, classification_result, steps, faults,
                    corrected_text >>

BillNext ==
    \/ BillExtract
    \/ BillNormalize
    \/ BillClassify
    \/ BillCurrencyTurn
    \/ BillDigitTurn
    \/ BillWordTurn
    \/ BillClassified
    \/ BillAssemble

BillSpec == BillInit /\ [][BillNext]_vars

\* The amounts and the labels that the seven-line bill is to be given.
BillLabels ==
    { <<100 * Hundred, TypeConsultation>>, <<800 * Hundred, TypeXRay>>,
      <<400 * Hundred, TypeMedicine>>, <<1600 * Hundred, TypeTotalBill>>,
      <<1500 * Hundred, TypePaid>>, <<200 * Hundred, TypeDue>>,
      <<10 * Hundred, TypeDiscount>> }

\* The amount and the label of every item of a classification.
LabelsOf(items) == { <<items[i].value, items[i].type>> : i \in 1..Len(items) }

\* The types that _extract_item_name returns without a search of the context
\* are the only ones that the classification of a bill produces.
NamedByType ==
    pc \in {"assemble", "done"} =>
        \A i \in 1..Len(classification_result.amounts) :
            classification_result.amounts[i].type
                \in standard_types \cup known_medical_services

\* C14: process_text on the seven-line bill extracts exactly the amounts
\* 100, 800, 400, 1600, 1500, 200 and 10, and the classification labels them
\* consultation, x_ray, medicine, total_bill, paid, due and discount.
C14_BillAmountsAndLabels ==
    (pc \in {"assemble", "done"} /\ text = BillLines) =>
        /\ Range(normalization_result.normalized_amounts) = { pair[1] : pair \in BillLabels }
        /\ LabelsOf(classification_result.amounts) = BillLabels

(***************************************************************************)
(* Requests interleaved at their await points                              *)
(***************************************************************************)
MaxRequests == 2

\* The calls of process_text and process_image that the event loop runs.
Requests == 1..MaxRequests

\* Texts of requests: "Rs.100" in a text that names the rupee, and "10%" and
\* "5" in a text that names no currency.
RequestTexts ==
    { Text(TRUE, 40, 40, << <<"R", "s", ".", "1", "0", "0">> >>,
           [cleaned |-> [currency |-> "INR", confidence |-> 4 * Tenth], original |-> "INR"]),
      Text(TRUE, 40, 40, << <<"1", "0", "%">>, <<"5">> >>, NoCurrency) }

\* Images of requests: each text read by the OCR engine with confidence 0.1
\* or 0.9, and an image with no text.
RequestImages ==
    { Image(MAX_IMAGE_SIZE, TRUE, "ok", "text", c, t) : c \in OcrConfidences, t \in RequestTexts }
      \cup { Image(MIN_IMAGE_SIZE, TRUE, "ok", "no_text", 0, NoText) }

\* The argument of a call: text of process_text or image_data of
\* process_image.
RequestInputs ==
    { [source |-> "text", text |-> t, image |-> NoImage] : t \in RequestTexts }
      \cup { [source |-> "image", text |-> NoText, image |-> img] : img \in RequestImages }

\* What classify_amounts gives each of n amounts of a text, a function of its
\* arguments alone: the amounts of a text that names a currency are
\* associated directly, the others have no keyword.
TextOutcomes(t, n) ==
    [i \in 1..n |->
        IF t.detected.original = "UNKNOWN"
        THEN [item_name |-> "basic_service", confidence |-> 2 * Tenth]
        ELSE [item_name |-> "total_bill", confidence |-> 9 * Tenth]]

\* One response object for every call.
SharedResponse(request) == 1

\* The RawTokensResponse that extract_from_text constructs in the call of a
\* request: a new object in every call, which only this request refers to.
NewResponse(request) == request

\* extracted_text of process_image, line 121.
ExtractedText(extracted) ==
    IF extracted.original_text.len > 0 THEN extracted.original_text
    ELSE reconstruct_text_from_tokens(extracted.raw_tokens)

ConcurrentInit ==
    /\ pc = [r \in Requests |-> "extract"]
    /\ \E inputs \in [Requests -> RequestInputs] :
          /\ source = [r \in Requests |-> inputs[r].source]
          /\ text = [r \in Requests |-> inputs[r].text]
          /\ image = [r \in Requests |-> inputs[r].image]
    /\ processing_threshold \in ThresholdSettings
    /\ ocr_result = [r \in Requests |-> NoOcrResult]
    /\ normalization_result = [r \in Requests |-> NormalizationResponse(<< >>, 0)]
    /\ classification_result = [r \in Requests |-> ClassificationResponse(<< >>, 0)]
    /\ result = [r \in Requests |-> Pending]
    /\ calls = << >>
    /\ steps = {}
    /\ faults = {}
    /\ corrected_text = << >>

\* The event loop runs request r up to its next await: steps records the
\* requests that are then between two of their own steps.
Resumed(r) ==
    /\ steps' = steps \cup { q \in Requests \ {r} : pc[q] \notin {"extract", "done"} }
    /\ UNCHANGED << source, image, processing_threshold, calls, faults, corrected_text >>

\* Lines 36-51 of process_text and 112-127, 148-155 of process_image for
\* request r, the extraction given.
Extracted(r, extracted) ==
    IF extracted.status # "success"
    THEN /\ result' = [result EXCEPT ![r] = extraction_failed(extracted)]
         /\ pc' = [pc EXCEPT ![r] = "done"]
    ELSE IF below_threshold(extracted.confidence, processing_threshold)
    THEN /\ result' = [result EXCEPT ![r] = extraction_low_confidence(extracted)]
         /\ pc' = [pc EXCEPT ![r] = "done"]
    ELSE /\ result' = result
         /\ pc' = [pc EXCEPT ![r] = "normalize"]

\* process_text of request r: await ocr_service.extract_from_text(text), and
\* the two checks.
ExtractText(r) ==
    /\ pc[r] = "extract"
    /\ source[r] = "text"
    /\ ocr_result' = [ocr_result EXCEPT ![NewResponse(r)] = extract_from_text(text[r], "none").response]
    /\ Extracted(r, extract_from_text(text[r], "none").response)
    /\ UNCHANGED << text, normalization_result, classification_result >>
    /\ Resumed(r)

\* extract_from_image of request r up to line 173, the await of
\* extract_from_text(corrected_text); an image that does not get there has
\* its response returned, and process_image returns.
ExtractImage(r) ==
    /\ pc[r] = "extract"
    /\ source[r] = "image"
    /\ IF validate_image_data(image[r]).is_valid /\ image[r].load = "ok" /\ image[r].ocr = "text"
       THEN /\ ocr_result' = [ocr_result EXCEPT ![NewResponse(r)] =
                                 extract_from_text(image[r].text, "none").response]
            /\ pc' = [pc EXCEPT ![r] = "combine"]
            /\ result' = result
       ELSE /\ ocr_result' = [ocr_result EXCEPT ![NewResponse(r)] =
                                 extract_from_image(image[r], "none").response]
            /\ Extracted(r, extract_from_image(image[r], "none").response)
    /\ UNCHANGED << text, normalization_result, classification_result >>
    /\ Resumed(r)

\* Lines 176-186 of extract_from_image for request r: the confidence and the
\* text are written to the response; then the checks of process_image.
Combine(r) ==
    /\ pc[r] = "combine"
    /\ ocr_result' = [ocr_result EXCEPT ![NewResponse(r)] = CombinedResult(@, image[r])]
    /\ Extracted(r, CombinedResult(ocr_result[NewResponse(r)], image[r]))
    /\ text' = [text EXCEPT ![r] =
                  IF CombinedResult(ocr_result[NewResponse(r)], image[r]).status = "success"
                  THEN ExtractedText(CombinedResult(ocr_result[NewResponse(r)], image[r]))
                  ELSE @]
    /\ UNCHANGED << normalization_result, classification_result >>
    /\ Resumed(r)

\* Step 2 of request r: await normalization_service.normalize_amounts(...)
NormalizeRequest(r) ==
    /\ pc[r] = "normalize"
    /\ normalization_result' =
          [normalization_result EXCEPT ![r] =
              normalize_amounts(ocr_result[NewResponse(r)].raw_tokens,
                                ocr_result[NewResponse(r)].confidence, FALSE)]
    /\ IF normalization_result'[r].normalized_amounts = << >>
       THEN /\ result' = [result EXCEPT ![r] =
                             nothing_normalized(ocr_result[NewResponse(r)],
                                                normalization_result'[r])]
            /\ pc' = [pc EXCEPT ![r] = "done"]
       ELSE /\ result' = result
            /\ pc' = [pc EXCEPT ![r] = "classify"]
    /\ UNCHANGED << text, ocr_result, classification_result >>
    /\ Resumed(r)

\* Step 3 of request r: await classification_service.classify_amounts(...)
ClassifyRequest(r) ==
    /\ pc[r] = "classify"
    /\ classification_result' =
          [classification_result EXCEPT ![r] =
              classify_amounts(normalization_result[r].normalized_amounts, source[r],
                               TextOutcomes(text[r],
                                            Len(normalization_result[r].normalized_amounts)),
                               FALSE)]
    /\ pc' = [pc EXCEPT ![r] = "assemble"]
    /\ UNCHANGED << text, ocr_result, normalization_result, result >>
    /\ Resumed(r)

\* Step 4 of request r: return await self._assemble_final_output(...)
AssembleRequest(r) ==
    /\ pc[r] = "assemble"
    /\ result' = [result EXCEPT ![r] =
                     assemble_final_output(ocr_result[NewResponse(r)],
                                           normalization_result[r],
                                           classification_result[r], text[r],
                                           processing_threshold, FALSE)]
    /\ pc' = [pc EXCEPT ![r] = "done"]
    /\ UNCHANGED << text, ocr_result, normalization_result, classification_result >>
    /\ Resumed(r)

ConcurrentNext ==
    \/ \E r \in Requests : ExtractText(r)
    \/ \E r \in Requests : ExtractImage(r)
    \/ \E r \in Requests : Combine(r)
    \/ \E r \in Requests : NormalizeRequest(r)
    \/ \E r \in Requests : ClassifyRequest(r)
    \/ \E r \in Requests : AssembleRequest(r)

ConcurrentSpec == ConcurrentInit /\ [][ConcurrentNext]_vars

\* What process_text(t) returns when no other request runs.
AloneText(t, extracted, threshold) ==
    IF extracted.status # "success" THEN extraction_failed(extracted)
    ELSE process_text_tail(extracted, t, threshold, TextOutcomes(t, Unbounded)).result

\* What process_image returns when no other request runs, for the response
\* and the text of the extraction.
AloneImage(extracted, extracted_text, threshold) ==
    IF extracted.status # "success" THEN extraction_failed(extracted)
    ELSE continue_pipeline_from_ocr(extracted, extracted_text, threshold,
                                    TextOutcomes(extracted_text, Unbounded)).result

\* What request r returns when it runs alone.
Alone(r) ==
    IF source[r] = "text"
    THEN AloneText(text[r], extract_from_text(text[r], "none").response, processing_threshold)
    ELSE AloneImage(extract_from_image(image[r], "none").response,
                    ExtractedText(extract_from_image(image[r], "none").response),
                    processing_threshold)

\* Every request that has returned has the result of its run alone.
ResultsAsAlone == \A r \in Requests : pc[r] = "done" => result[r] = Alone(r)

\* C13: requests interleaved at their await points are independent: each
\* returns what it returns when it runs alone, and no step of a request
\* writes the threshold that every request reads.
C13_RequestsIndependent ==
    /\ []ResultsAsAlone
    /\ [][processing_threshold' = processing_threshold]_vars

\* Two requests, a text and an image, each resumed while the other was
\* between two of its steps, have returned different results, both "ok".
C13_Witness ==
    /\ \A r \in Requests : pc[r] = "done" /\ result[r].response.status = "ok"
    /\ steps = Requests
    /\ source[1] = "text"
    /\ source[2] = "image"
    /\ result[1] # result[2]

(***************************************************************************)
(* detect_currency on texts of currency marks                              *)
(***************************************************************************)
MaxMarks == 4

\* The parts of the texts: marks of three currencies and a letter.
CurrencyMarks == { <<"$">>, <<"R", "s">>, <<"₹">>, <<"U", "S", "D">>, <<"€">>, <<"x">> }

RECURSIVE JoinMarks(_)
JoinMarks(marks) == IF marks = << >> THEN << >> ELSE marks[1] \o JoinMarks(Tail(marks))

\* The texts of up to MaxMarks parts, each a text of one line.
DetectTexts == { << JoinMarks(marks) >> : marks \in SeqsUpTo(CurrencyMarks, MaxMarks) }

\* A caller is about to call currency_detector.detect_currency(text).
DetectInit ==
    /\ pc = "detect"
    /\ source = "text"
    /\ processing_threshold = PROCESSING_CONFIDENCE_THRESHOLD
    /\ image = NoImage
    /\ text \in DetectTexts
    /\ ocr_result = NoOcrResult
    /\ normalization_result = NormalizationResponse(<< >>, 0)
    /\ classification_result = ClassificationResponse(<< >>, 0)
    /\ result = [currency |-> "UNKNOWN", confidence |-> 0]
    /\ calls = << >>
    /\ steps = << >>
    /\ faults = {}
    /\ corrected_text = << >>

\* detect_currency(text) returns.
Detect ==
    /\ pc = "detect"
    /\ result' = detect_currency(text)
    /\ pc' = "detected"
    /\ calls' = Append(calls, "detect_currency")
    /\ UNCHANGED << source, processing_threshold, image, text, ocr_result,
                    normalization_result, classification_result, steps, faults,
                    corrected_text >>

DetectNext == Detect

DetectSpec == DetectInit /\ [][DetectNext]_vars

\* Some pattern of the table matches somewhere in the text.
SomePatternMatches(lines) ==
    \E k \in 1..Len(CURRENCY_PATTERNS) :
        \E j \in 1..Len(CURRENCY_PATTERNS[k][2]) :
            TokensFound(CURRENCY_PATTERNS[k][2][j], lines, 1, TRUE) # << >>

\* The score of the k-th currency of the table: 0.3 for every match and the
\* bonus of the first match of every pattern.
ScoreOf(k, lines) ==
    PatternsScore(CURRENCY_PATTERNS[k][2], lines, Len(CURRENCY_PATTERNS[k][2]))

\* The k-th currency is returned with its score clamped, no currency has a
\* higher score and no earlier currency has the same.
ReturnsBest(k, detected, scores) ==
    /\ detected.currency = CURRENCY_PATTERNS[k][1]
    /\ detected.confidence = Min(One, scores[k])
    /\ detected.confidence >= 0
    /\ \A j \in 1..Len(scores) : scores[j] <= scores[k]
    /\ \A j \in 1..(k - 1) : scores[j] < scores[k]

MaxDigits == 7

\* Numerals of up to MaxDigits digits 0 or 1, with no fraction or with the
\* fraction .5 or .05.
MarkedNumerals ==
    { digits \o fraction :
        digits \in SeqsUpTo({"0", "1"}, MaxDigits) \ { << >> },
        fraction \in { << >>, <<".", "5">>, <<".", "0", "5">> } }

\* Tokens as the currency and percentage patterns of extract_numeric_tokens
\* match them: "Rs.100", "$100", "100Rs" and "100%".
MarkedTokens ==
    { <<"R", "s", ".">> \o numeral : numeral \in MarkedNumerals }
      \cup { <<"$">> \o numeral : numeral \in MarkedNumerals }
      \cup { numeral \o <<"R", "s">> : numeral \in MarkedNumerals }
      \cup { numeral \o <<"%">> : numeral \in MarkedNumerals }

\* A caller is about to call text_processor.extract_amounts_from_token(token).
TokenInit ==
    /\ pc = "extract"
    /\ source = "text"
    /\ processing_threshold = PROCESSING_CONFIDENCE_THRESHOLD
    /\ image = NoImage
    /\ text \in MarkedTokens
    /\ ocr_result = NoOcrResult
    /\ normalization_result = NormalizationResponse(<< >>, 0)
    /\ classification_result = ClassificationResponse(<< >>, 0)
    /\ result = << >>
    /\ calls = << >>
    /\ steps = << >>
    /\ faults = {}
    /\ corrected_text = << >>

\* extract_amounts_from_token(token) returns.
TokenExtract ==
    /\ pc = "extract"
    /\ result' = extract_amounts_from_token(text)
    /\ pc' = "extracted"
    /\ calls' = Append(calls, "extract_amounts_from_token")
    /\ UNCHANGED << source, processing_threshold, image, text, ocr_result,
                    normalization_result, classification_result, steps, faults,
                    corrected_text >>

TokenNext == TokenExtract

TokenSpec == TokenInit /\ [][TokenNext]_vars

\* The number embedded in a token: the token without its marker.
EmbeddedNumeral(token) ==
    IF token[1] = "R" THEN SubSeq(token, 4, Len(token))
    ELSE IF token[1] = "$" THEN SubSeq(token, 2, Len(token))
    ELSE IF token[Len(token)] = "%" THEN SubSeq(token, 1, Len(token) - 1)
    ELSE SubSeq(token, 1, Len(token) - 2)

\* The amounts are the whole number of the token if it lies in the range of
\* the token, and none if it does not.
WholeNumberInRange(token, number, amounts) ==
    /\ \A i \in 1..Len(amounts) : amounts[i] = number
    /\ (IF HasPercentSign(token) THEN ~InPercentRange(number) ELSE ~InAmountRange(number))
          => amounts = << >>

\* C23: from a currency-tagged token extract_amounts_from_token returns the
\* embedded number only if it lies in 1.0 .. MAX_AMOUNT_VALUE, from a
\* percentage token only if it lies in 0.1 .. 100; a number outside its range
\* gives the empty list, and a returned value is the whole embedded number.
C23_WholeNumberInRange ==
    pc = "extracted" => WholeNumberInRange(text, ParseFloat(EmbeddedNumeral(text)), result)

(***************************************************************************)
(* TextProcessor.extract_numeric_tokens on lines of words                  *)
(***************************************************************************)
MaxParts == 3

\* The words of a line: tokens with a marker of either case, bare numbers of
\* one and of several digits, a fraction below one and a word without digits.
TokenizerParts ==
    { <<"$", "5">>, <<"r", "s", "1">>, <<"R", "s", ".", "1", "2">>, <<"2", "3", "4", "5">>,
      <<"5">>, <<"0", ".", "5">>, <<"1", "0", "%">>, <<"a", "b">> }

\* ' '.join(parts)
RECURSIVE JoinParts(_)
JoinParts(parts) ==
    IF Len(parts) = 1 THEN parts[1] ELSE parts[1] \o <<" ">> \o JoinParts(Tail(parts))

\* Texts of one line of up to MaxParts words.
TokenizerTexts ==
    { << JoinParts(parts) >> : parts \in SeqsUpTo(TokenizerParts, MaxParts) \ { << >> } }

\* (token, position, context) of the best token of each group, the context
\* left out.
PositionedTokens(tokens, keys) == [g \in 1..Len(keys) |-> BestToken(tokens, keys[g])]

\* extract_numeric_tokens(text) with the positions of the tokens.
numeric_tokens_with_positions(lines) ==
    PositionedTokens(StrategyTokens(lines),
                     Unique([k \in 1..Len(StrategyTokens(lines)) |->
                                position_key(StrategyTokens(lines)[k])]))

\* A caller is about to call text_processor.extract_numeric_tokens(text).
TokenizerInit ==
    /\ pc = "tokenize"
    /\ source = "text"
    /\ processing_threshold = PROCESSING_CONFIDENCE_THRESHOLD
    /\ image = NoImage
    /\ text \in TokenizerTexts
    /\ ocr_result = NoOcrResult
    /\ normalization_result = NormalizationResponse(<< >>, 0)
    /\ classification_result = ClassificationResponse(<< >>, 0)
    /\ result = << >>
    /\ calls = << >>
    /\ steps = << >>
    /\ faults = {}
    /\ corrected_text = << >>

\* extract_numeric_tokens(text) returns.
Tokenize ==
    /\ pc = "tokenize"
    /\ result' = numeric_tokens_with_positions(text)
    /\ pc' = "tokenized"
    /\ calls' = Append(calls, "extract_numeric_tokens")
    /\ UNCHANGED << source, processing_threshold, image, text, ocr_result,
                    normalization_result, classification_result, steps, faults,
                    corrected_text >>

TokenizerNext == Tokenize

TokenizerSpec == TokenizerInit /\ [][TokenizerNext]_vars

\* The token carries a currency or percent marker: "%", "$", "₹" or the
\* "Rs" of the currency patterns, which are searched with re.IGNORECASE.
CarriesMarker(numeric) ==
    \/ \E i \in 1..Len(numeric.token) : numeric.token[i] \in {"%", "$", "₹"}
    \/ Contains(Lower(numeric.token), <<"r", "s">>)

\* The candidates of the bucket of a token.
SameBucket(candidates, numeric) ==
    SelectSeq(candidates, LAMBDA c : position_key(c) = position_key(numeric))

\* One token of every bucket with a candidate, and no bucket twice.
OnePerBucket(candidates, tokens) ==
    /\ \A i, j \in 1..Len(tokens) : position_key(tokens[i]) = position_key(tokens[j]) => i = j
    /\ { position_key(tokens[i]) : i \in 1..Len(tokens) }
          = { position_key(candidates[k]) : k \in 1..Len(candidates) }

\* The chosen token is a candidate of its bucket, marked if a candidate of
\* the bucket is marked, and no candidate marked as it is is longer.
ChosenOf(bucket, chosen) ==
    /\ \E k \in 1..Len(bucket) : bucket[k] = chosen
    /\ (\E k \in 1..Len(bucket) : CarriesMarker(bucket[k])) => CarriesMarker(chosen)
    /\ \A k \in 1..Len(bucket) :
          CarriesMarker(bucket[k]) = CarriesMarker(chosen)
              => Len(bucket[k].token) <= Len(chosen.token)

BucketsResolved(candidates, tokens) ==
    /\ OnePerBucket(candidates, tokens)
    /\ \A i \in 1..Len(tokens) : ChosenOf(SameBucket(candidates, tokens[i]), tokens[i])

\* C24: extract_numeric_tokens returns one token of each position bucket
\* (position integer-divided by 5): a candidate with a currency or percent
\* marker is chosen over every bare number of the bucket, and of the
\* candidates marked as the chosen one none is longer.
C24_BucketsResolved ==
    pc = "tokenized" => BucketsResolved(StrategyTokens(text), result)

\* The token is a bare number of one digit or of a magnitude below one.
BareNoise(numeric) ==
    /\ ~CarriesMarker(numeric)
    /\ \/ Len(numeric.token) = 1
       \/ ~AtLeastOne(numeric)

\* C25: extract_numeric_tokens returns no bare number (one without a currency
\* or percent marker) of a single digit or of a magnitude below 1.
C25_NoBareNoise ==
    pc = "tokenized" => \A i \in 1..Len(result) : ~BareNoise(result[i])

(***************************************************************************)
(* ClassificationService._resolve_classification_conflicts                 *)
(***************************************************************************)
MaxItems == 3

\* standard_billing_types, in the order of the code.
standard_billing_types == << TypeTotalBill, TypeDue, TypePaid, TypeDiscount, TypeTax, TypeCopay >>

IsStandardType(label) == \E t \in 1..Len(standard_billing_types) : standard_billing_types[t] = label

\* f"{amount_type}_{n}"
NumberedType(amount_type, n) == amount_type \o <<"_">> \o DecimalDigits(n)

\* item.type = f"{amount_type}_{n}"
Renamed(item, n) == AmountItem(NumberedType(item.type, n), item.value, item.source)

\* max(items, key=lambda x: x.value): the first of the items of the highest
\* value.
best_item(items) ==
    items[CHOOSE k \in 1..Len(items) :
             /\ \A j \in 1..Len(items) : items[j].value <= items[k].value
             /\ \A j \in 1..(k - 1) : items[j].value < items[k].value]

\* for i, item in enumerate(items): the items that are not equal to the best
\* one, each under the number i + 1 of its place among the items. Two items of
\* a pydantic model are equal if their fields are.
RECURSIVE RenamedOthers(_, _, _)
RenamedOthers(items, best, i) ==
    IF i > Len(items) THEN << >>
    ELSE (IF items[i] # best THEN << Renamed(items[i], i) >> ELSE << >>)
           \o RenamedOthers(items, best, i + 1)

\* The items of total_bill, due or paid: the best item, then the others.
HighestKept(items, best) == << best >> \o RenamedOthers(items, best, 1)

\* The items of discount, tax or copay: the first as it is, the others under
\* the number of their place.
FirstKept(items) == [i \in 1..Len(items) |-> IF i > 1 THEN Renamed(items[i], i) ELSE items[i]]

\* The items of the group of a type, resolved.
ResolvedGroup(amount_type, items) ==
    IF Len(items) = 1 THEN items
    ELSE IF amount_type \in { TypeTotalBill, TypeDue, TypePaid } THEN HighestKept(items, best_item(items))
    ELSE FirstKept(items)

\* The groups of type_groups in the order in which their types first appear.
RECURSIVE ResolvedGroups(_, _)
ResolvedGroups(classified_amounts, types) ==
    IF types = << >> THEN << >>
    ELSE ResolvedGroup(types[1], SelectSeq(classified_amounts, LAMBDA item : item.type = types[1]))
           \o ResolvedGroups(classified_amounts, Tail(types))

\* _apply_relationship_rules(amounts) changes nothing.
apply_relationship_rules(amounts) == amounts

\* _resolve_classification_conflicts(classified_amounts, original_text); the
\* text is not used.
resolve_classification_conflicts(classified_amounts) ==
    IF Len(classified_amounts) <= 1 THEN classified_amounts
    ELSE apply_relationship_rules(
             SelectSeq(classified_amounts, LAMBDA item : ~IsStandardType(item.type))
               \o ResolvedGroups(classified_amounts,
                                 Unique(SelectSeq([i \in 1..Len(classified_amounts) |->
                                                      classified_amounts[i].type],
                                                  IsStandardType))))

\* Classified items of a financial type of either kind and of a service, of
\* two values and two sources.
ConflictItems ==
    { AmountItem(label, value, origin) :
        label \in { TypePaid, TypeDiscount, TypeConsultation },
        value \in { Hundred * Hundred, 2 * Hundred * Hundred },
        origin \in { "text: 'Paid'", "text: 'Due'" } }

\* A caller is about to resolve the conflicts of a list of classified items.
ConflictInit ==
    /\ pc = "resolve"
    /\ source = "text"
    /\ processing_threshold = PROCESSING_CONFIDENCE_THRESHOLD
    /\ image = NoImage
    /\ text = << >>
    /\ ocr_result = NoOcrResult
    /\ normalization_result = NormalizationResponse(<< >>, 0)
    /\ classification_result \in
          { ClassificationResponse(items, 0) : items \in SeqsUpTo(ConflictItems, MaxItems) }
    /\ result = << >>
    /\ calls = << >>
    /\ steps = << >>
    /\ faults = {}
    /\ corrected_text = << >>

\* _resolve_classification_conflicts(classified_amounts, original_text)
\* returns.
Resolve ==
    /\ pc = "resolve"
    /\ result' = resolve_classification_conflicts(classification_result.amounts)
    /\ pc' = "resolved"
    /\ calls' = Append(calls, "_resolve_classification_conflicts")
    /\ UNCHANGED << source, processing_threshold, image, text, ocr_result,
                    normalization_result, classification_result, steps, faults,
                    corrected_text >>

ConflictNext == Resolve

ConflictSpec == ConflictInit /\ [][ConflictNext]_vars

\* The number of times an item occurs in a list.
Occurrences(items, item) == Cardinality({ i \in 1..Len(items) : items[i] = item })

SameItems(some, others) ==
    /\ Len(some) = Len(others)
    /\ \A i \in 1..Len(some) : Occurrences(some, some[i]) = Occurrences(others, some[i])

\* The items of a type with one of them as the winner: the winner under the
\* label of the type, the others numbered from 1 in their order.
WinnerAndLosers(items, k) ==
    << items[k] >> \o
    [n \in 1..(Len(items) - 1) |-> Renamed(items[IF n < k THEN n ELSE n + 1], n)]

\* The resolved items that carry the label of a type or one of its numbered
\* labels.
OfType(resolved, amount_type, count) ==
    SelectSeq(resolved, LAMBDA item :
        \/ item.type = amount_type
        \/ \E n \in 1..count : item.type = NumberedType(amount_type, n))

\* The items of a financial type are resolved as claimed: one alone is
\* unchanged; of several, one of the highest value keeps the label and the
\* others are numbered from 1.
TypeResolved(items, ofType) ==
    IF Len(items) <= 1 THEN ofType = items
    ELSE \E k \in 1..Len(items) :
            /\ \A j \in 1..Len(items) : items[j].value <= items[k].value
            /\ SameItems(ofType, WinnerAndLosers(items, k))

ConflictsResolved(classified, resolved) ==
    /\ Len(resolved) = Len(classified)
    /\ \A i \in 1..Len(classified) :
          ~IsStandardType(classified[i].type)
              => Occurrences(resolved, classified[i]) = Occurrences(classified, classified[i])
    /\ \A t \in 1..Len(standard_billing_types) :
          TypeResolved(SelectSeq(classified, LAMBDA item : item.type = standard_billing_types[t]),
                       OfType(resolved, standard_billing_types[t], Len(classified)))

\* C26: conflict resolution leaves the service items unchanged and drops no
\* item; of the items of a financial type carried by more than one item the
\* one of the highest value keeps the label, and the others are renamed
\* "{type}_{n}", n counting the losers from 1.
C26_ConflictsResolved ==
    pc = "resolved" => ConflictsResolved(classification_result.amounts, result)

(***************************************************************************)
(* One amount and its context in the loop of classify_amounts              *)
(***************************************************************************)
\* What stands before the phrase in a context: nothing, or a word of the
\* item patterns and a comma.
AssociationPrefixes == { << >>, <<"B", "e", "d", ",", " ">>, <<"R", "o", "o", "m", ",", " ">> }

\* Phrases of the table, phrases that name a value of AmountType outside the
\* table, and phrases that are neither.
AssociationPhrases ==
    { <<"T", "o", "t", "a", "l">>,
      <<"G", "r", "a", "n", "d", " ", "T", "o", "t", "a", "l">>,
      <<"X", "-", "R", "a", "y">>,
      <<"O", "t", "h", "e", "r">>,
      <<"I", "n", "s", "u", "r", "a", "n", "c", "e", " ", "C", "o", "v", "e", "r", "e", "d">>,
      <<"W", "a", "r", "d">>,
      <<"D", "e", "d", "u", "c", "t", "i", "b", "l", "e">>,
      <<"F", "e", "e">> }

\* What stands between the phrase and the amount.
AssociationMarks == { <<":", " ", "R", "s", ".">>, <<" ", "R", "s", ".">>, <<" ", "R", "s", " ">>, <<"₹">> }

AssociationAmounts == { 100 * Hundred, 250 * Hundred }

\* Contexts with a phrase before the amount, and the amount.
AssociationInputs ==
    { [amount |-> amount, context |-> prefix \o phrase \o mark \o amount_str(amount)] :
        amount \in AssociationAmounts, prefix \in AssociationPrefixes,
        phrase \in AssociationPhrases, mark \in AssociationMarks }

\* classify_amounts has found the context of an amount and is about to
\* classify it (line 57).
AssociationInit ==
    /\ pc = "classify_one"
    /\ source = "text"
    /\ processing_threshold = PROCESSING_CONFIDENCE_THRESHOLD
    /\ image = NoImage
    /\ \E input \in AssociationInputs :
          /\ text = << input.context >>
          /\ normalization_result = NormalizationResponse(<< input.amount >>, 0)
    /\ ocr_result = NoOcrResult
    /\ classification_result = ClassificationResponse(<< >>, 0)
    /\ result = << >>
    /\ calls = << >>
    /\ steps = << >>
    /\ faults = {}
    /\ corrected_text = << >>

\* Lines 57-73 of classify_amounts for the amount: _classify_single_amount,
\* _extract_item_name and the item appended.
ClassifyOne ==
    /\ pc = "classify_one"
    /\ classification_result' =
          ClassifiedIn(normalization_result.normalized_amounts, text, cleaned_lower(text), source)
    /\ pc' = "classified_one"
    /\ calls' = calls \o <<"_classify_single_amount", "_extract_item_name">>
    /\ UNCHANGED << source, processing_threshold, image, text, ocr_result,
                    normalization_result, result, steps, faults, corrected_text >>

AssociationNext == ClassifyOne

AssociationSpec == AssociationInit /\ [][AssociationNext]_vars

\* The item has the type of the direct association of its context, and the
\* classification the confidence 0.9.
LabelledDirectly(direct, classified) ==
    direct.found =>
        /\ classified.amounts[1].type = direct.type
        /\ classified.confidence = 9 * Tenth

\* C27: an amount whose context holds a direct association (a phrase, then
\* ':' or blanks, then Rs. or the rupee sign and the amount) is labelled with
\* the table type of the first key of the table found in the phrase, or with
\* the phrase in lower case and underscored when no key is found and the
\* phrase qualifies as a service, at confidence 0.9 exactly.
C27_LabelledDirectly ==
    pc = "classified_one" =>
        LabelledDirectly(DirectAssociation(text[1],
                                           amount_str(normalization_result.normalized_amounts[1]), 1),
                         classification_result)

(***************************************************************************)
(* classify_amounts on lists of amounts and the text of a bill             *)
(***************************************************************************)
MaxAmounts == 2

\* The seven-line bill, without and with the colon after "Due".
ClassifyTexts == { BillLines, [BillLines EXCEPT ![6] = DueWithColon] }

\* Amounts of the bill: every one has a match in the text, which gives it
\* its context.
ClassifyAmounts == { 100 * Hundred, 200 * Hundred, 1600 * Hundred, 10 * Hundred }

\* A caller awaits classify_amounts(amounts, original_text, hint, "text").
ClassifyInit ==
    /\ pc = "classify"
    /\ source = "text"
    /\ processing_threshold = PROCESSING_CONFIDENCE_THRESHOLD
    /\ image = NoImage
    /\ text \in ClassifyTexts
    /\ ocr_result = NoOcrResult
    /\ normalization_result \in
          { NormalizationResponse(amounts, 0) : amounts \in SeqsUpTo(ClassifyAmounts, MaxAmounts) }
    /\ classification_result = ClassificationResponse(<< >>, 0)
    /\ result = Pending
    /\ calls = << >>
    /\ steps = << >>
    /\ faults = {}
    /\ corrected_text = << >>

\* Lines 38-42: if not amounts, the empty response is returned at once.
ClassifyNothing ==
    /\ pc = "classify"
    /\ normalization_result.normalized_amounts = << >>
    /\ classification_result' = ClassificationResponse(<< >>, 0)
    /\ pc' = "assemble"
    /\ calls' = Append(calls, "classify")
    /\ UNCHANGED << source, processing_threshold, image, text, ocr_result,
                    normalization_result, result, steps, faults, corrected_text >>

\* Lines 44-50: with amounts, the contexts are looked for.
ClassifySome ==
    /\ normalization_result.normalized_amounts # << >>
    /\ BillClassify

ClassifyNext ==
    \/ ClassifyNothing
    \/ ClassifySome
    \/ BillCurrencyTurn
    \/ BillDigitTurn
    \/ BillWordTurn
    \/ BillClassified

ClassifySpec == ClassifyInit /\ [][ClassifyNext]_vars

\* What each amount is given on its own: its item and its confidence.
EachAlone(amounts, lines, corrected) ==
    IF amounts = << >> THEN << >>
    ELSE ClassifiedEach(amounts, find_amount_contexts(amounts, search_text(corrected)),
                        cleaned_lower(lines), "text")

\* One item for each amount, in the order of the amounts, with the value of
\* the amount and the label the amount is given on its own; the confidence is
\* the mean of the confidences, 0.0 without amounts.
ItemPerAmount(amounts, classified, each) ==
    /\ Len(classified.amounts) = Len(amounts)
    /\ \A i \in 1..Len(amounts) :
          /\ classified.amounts[i].value = amounts[i]
          /\ classified.amounts[i].type # << >>
          /\ classified.amounts[i].type = each[i].item.type
    /\ classified.confidence =
          IF amounts = << >> THEN 0
          ELSE Sum([i \in 1..Len(each) |-> each[i].confidence]) \div Len(each)

\* C28: classify_amounts returns one item for each amount, in their order,
\* with the value unchanged and a label that is not empty; items of one
\* canonical type are neither merged nor renamed; the confidence is the mean
\* of the confidences of the amounts, and an empty list gives ([], 0.0).
C28_ItemPerAmount ==
    pc = "assemble" =>
        \E each \in { EachAlone(normalization_result.normalized_amounts, text, corrected_text) } :
            ItemPerAmount(normalization_result.normalized_amounts, classification_result, each)

\* Two amounts of the bill are both labelled total_bill, with confidences
\* that differ.
C28_Witness ==
    /\ pc = "assemble"
    /\ normalization_result.normalized_amounts = << 1600 * Hundred, 200 * Hundred >>
    /\ Len(classification_result.amounts) = 2
    /\ classification_result.amounts[1].type = TypeTotalBill
    /\ classification_result.amounts[2].type = TypeTotalBill
    /\ classification_result.confidence = 5 * Tenth

(***************************************************************************)
(* The status and the payload of a response                                *)
(***************************************************************************)
\* The status of a response and what it carries agree.
StatusAgrees(response, threshold) ==
    /\ response.status \in {"error", "no_amounts_found"} =>
          /\ response.amounts = << >>
          /\ response.currency = None
    /\ response.status = "ok" =>
          /\ response.amounts # << >>
          /\ response.reason = NoReason
          /\ response.confidence >= threshold
    /\ response.amounts # << >> => response.status \in {"ok", "low_confidence"}

\* C29: in every response returned the status and the payload agree: error
\* and no_amounts_found come with no amounts and no currency; ok comes with
\* amounts, no reason and a confidence of at least the processing threshold;
\* amounts come only with ok or low_confidence.
C29_StatusAgrees ==
    pc = "done" => ~result.raised /\ StatusAgrees(result.response, processing_threshold)

C29_Witness ==
    /\ pc = "done"
    /\ result.response.status = "ok"
    /\ result.response.amounts # << >>
    /\ result.response.currency # None
    /\ result.response.confidence >= processing_threshold
    /\ processing_threshold > PROCESSING_CONFIDENCE_THRESHOLD

(***************************************************************************)
(* process_text under the default threshold                                *)
(***************************************************************************)
\* 0.36 = 0.4 * 0.3 + 0.4 * (0.9 + 0.3) / 2
LeastOverall == (36 * One) \div 100

\* Every raw token parses as a float and is given the score 0.9.
ParsedDirectly(raw_tokens) ==
    \A i \in 1..Len(raw_tokens) :
        /\ ParseFloat(raw_tokens[i]) # ValueError
        /\ NormalizeTokens(<< raw_tokens[i] >>).scores = << 9 * Tenth >>

\* What process_text ends with under the threshold 0.3.
DefaultTextRun(extracted, response) ==
    /\ response.status # "low_confidence"
    /\ extracted.status = "success" =>
          /\ extracted.raw_tokens # << >>
          /\ extracted.confidence >= 3 * Tenth
          /\ ParsedDirectly(extracted.raw_tokens)
    /\ response.amounts # << >> =>
          /\ response.confidence >= LeastOverall
          /\ response.status = "ok"

\* C30: with the default processing threshold 0.3 process_text never returns
\* low_confidence: a successful extraction from a text has at least one token
\* and a confidence of at least 0.3, every raw token parses directly with the
\* score 0.9, and a response with amounts has a confidence of at least 0.36
\* and the status ok.
C30_TextNeverLowConfidence ==
    (pc = "done" /\ source = "text"
       /\ processing_threshold = PROCESSING_CONFIDENCE_THRESHOLD) =>
        DefaultTextRun(ocr_result, result.response)

\* A text with one token and no currency: the extraction has the confidence
\* 0.3, the response 0.4 and the status ok.
C30_Witness ==
    /\ pc = "done"
    /\ source = "text"
    /\ processing_threshold = PROCESSING_CONFIDENCE_THRESHOLD
    /\ ocr_result.status = "success"
    /\ ocr_result.confidence = 3 * Tenth
    /\ result.response.status = "ok"
    /\ result.response.confidence = 4 * Tenth

====
